---- MODULE Spec2Model ----
(***************************************************************************)
(* A model of the x328-proto crate: the X3.28 wire codec (nom_parser.rs,   *)
(* types.rs, bcc), the bounded Buffer (buffer.rs), the Node state machine  *)
(* (node.rs) and the bus controller Master (master.rs).                    *)
(*                                                                         *)
(* Bytes are integers 0..255, byte strings are sequences of bytes.         *)
(* A nom IResult is a record [k, rest, val] with k one of "Ok", "Error",   *)
(* "Incomplete"; Option::None is the empty tuple.                          *)
(***************************************************************************)
EXTENDS Integers, Sequences, FiniteSets, TLC

\* ------------------------------------------------------------------------
\* ASCII control bytes (crate::ascii)
STX == 2
ETX == 3
EOT == 4
ENQ == 5
ACK == 6
BS == 8
NAK == 21

\* Buffer capacity (buffer.rs DEFAULT_BUF_SIZE)
DEFAULT_BUF_SIZE == 40

\* Capacity of ValueBytes = ArrayVec<u8, 6> (types.rs)
ValueBytesCap == 6

None == << >>

\* ------------------------------------------------------------------------
\* Byte helpers

\* The(S) is the element of the one-element set S; The({e(x) : x \in {v}})
\* is e(x) with x bound to the value of v, computed once.
The(S) == CHOOSE x \in S : TRUE

RECURSIVE BitXor(_, _)
\* u8 ^ u8
BitXor(x, y) ==
    IF x = 0 THEN y
    ELSE IF y = 0 THEN x
    ELSE (((x % 2) + (y % 2)) % 2) + 2 * BitXor(x \div 2, y \div 2)

RECURSIVE XorFold(_, _)
\* the `for byte in data { checksum ^= *byte }` loop of bcc, from index i
XorFold(data, i) ==
    IF i > Len(data) THEN 0
    ELSE The({BitXor(data[i], rest) : rest \in {XorFold(data, i + 1)}})

\* fault: bcc without the step that lifts a checksum below 0x20
bcc_unclamped(data) == XorFold(data, 1)

\* bcc(data): XOR of all bytes, plus 0x20 when below 0x20
bcc(data) ==
    LET checksum == XorFold(data, 1)
    IN  IF checksum < 32 THEN checksum + 32 ELSE checksum

\* &s[from..] with a 0-based start index
SliceFrom(s, from) == SubSeq(s, from + 1, Len(s))

\* &s[..to] with a 0-based exclusive end index
SliceTo(s, to) == SubSeq(s, 1, to)

RECURSIVE Reverse(_)
Reverse(s) == IF s = << >> THEN << >> ELSE Reverse(Tail(s)) \o <<Head(s)>>

\* ------------------------------------------------------------------------
\* types.rs

\* fault: Address::to_bytes repeating the number instead of each digit
AddressToBytesRepeated(a) ==
    <<48 + (a \div 10), 48 + (a % 10), 48 + (a \div 10), 48 + (a % 10)>>

\* Address::to_bytes: tens digit doubled, units digit doubled
AddressToBytes(a) ==
    <<48 + (a \div 10), 48 + (a \div 10), 48 + (a % 10), 48 + (a % 10)>>

\* Parameter::to_bytes: four zero padded decimal digits
ParameterToBytes(p) ==
    <<48 + ((p \div 1000) % 10), 48 + ((p \div 100) % 10),
      48 + ((p \div 10) % 10), 48 + (p % 10)>>

\* fault: Parameter::next without the upper limit
ParameterNextUnchecked(p) == <<p + 1>>

\* Parameter::next
ParameterNext(p) == IF p < 9999 THEN <<p + 1>> ELSE None

\* Parameter::prev
ParameterPrev(p) == IF p > 0 THEN <<p - 1>> ELSE None

VAL_MIN_NORM == 0 - 9999
VAL_RANGE_MIN == 0 - 99999
VAL_RANGE_MAX == 999999

NoValue == [val |-> 0, fmt |-> "NoValue"]

\* Value::new: range check, Wide format below VAL_MIN_NORM
ValueNew(n) ==
    IF n < VAL_RANGE_MIN \/ n > VAL_RANGE_MAX THEN None
    ELSE <<[val |-> n, fmt |-> IF n < VAL_MIN_NORM THEN "Wide" ELSE "Normal"]>>

Abs(n) == IF n < 0 THEN 0 - n ELSE n

\* The outcome of a panicking to_bytes (ArrayVec::push on a full vector):
\* a byte string no encoder produces
Panic == <<0 - 1>>

RECURSIVE ValueDigits(_, _, _)
\* the digit loop of Value::to_bytes: buf holds the digits pushed so far
\* (least significant first); the result is Panic when a push overflows
ValueDigits(val, fmt, buf) ==
    IF Len(buf) >= ValueBytesCap THEN Panic
    ELSE The({IF x[2] = 0 /\ (fmt = "Normal" \/ Len(x[1]) = 5)
              THEN x[1]
              ELSE ValueDigits(x[2], fmt, x[1])
              : x \in {<<Append(buf, 48 + (val % 10)), val \div 10>>}})

\* fault: Value::to_bytes writing '+' for every value
ValueToBytesPlusOnly(v) ==
    The({IF digits = Panic THEN Panic
         ELSE IF Len(digits) < ValueBytesCap THEN Reverse(Append(digits, 43))
         ELSE Reverse(digits)
         : digits \in {ValueDigits(Abs(v.val), v.fmt, << >>)}})

\* fault: Value::to_bytes writing the sign of a full six digit field too
ValueToBytesAlwaysSigned(v) ==
    The({IF digits = Panic THEN Panic
         ELSE Reverse(Append(digits, IF v.val < 0 THEN 45 ELSE 43))
         : digits \in {ValueDigits(Abs(v.val), v.fmt, << >>)}})

\* Value::to_bytes: the on-wire value field, or Panic
ValueToBytes(v) ==
    The({IF digits = Panic THEN Panic
         ELSE IF v.val < 0
              THEN (IF Len(digits) >= ValueBytesCap THEN Panic
                    ELSE Reverse(Append(digits, 45)))
              ELSE IF Len(digits) < ValueBytesCap
                   THEN Reverse(Append(digits, 43))
                   ELSE Reverse(digits)
         : digits \in {ValueDigits(Abs(v.val), v.fmt, << >>)}})

IsDigit(c) == c >= 48 /\ c <= 57

IsValueChar(c) == IsDigit(c) \/ c = 43 \/ c = 45

RECURSIVE DigitsToInt(_, _)
\* decimal value of the digits s[1..n]
DigitsToInt(s, n) ==
    IF n = 0 THEN 0 ELSE 10 * DigitsToInt(s, n - 1) + (s[n] - 48)

\* str::parse::<i32>: optional sign, then at least one digit, digits only
ParseI32(s) ==
    LET signed == Len(s) > 0 /\ (s[1] = 43 \/ s[1] = 45)
        body == IF signed THEN Tail(s) ELSE s
    IN  IF body = << >> \/ \E i \in 1..Len(body) : ~IsDigit(body[i])
        THEN None
        ELSE IF signed /\ s[1] = 45
             THEN <<0 - DigitsToInt(body, Len(body))>>
             ELSE <<DigitsToInt(body, Len(body))>>

\* fault: Value::from_str refusing the six char form
ValueFromBytesMax5(s) ==
    IF Len(s) < 1 \/ Len(s) > 5 THEN None
    ELSE The({IF n = None THEN None ELSE <<[val |-> n[1], fmt |-> "Normal"]>>
              : n \in {ParseI32(s)}})

\* Value::from_str / TryFrom<&[u8]>: 1..5 chars Normal, 6 chars Wide
ValueFromBytes(s) ==
    IF Len(s) < 1 \/ Len(s) > 6 THEN None
    ELSE LET n == ParseI32(s)
         IN  IF n = None THEN None
             ELSE <<[val |-> n[1], fmt |-> IF Len(s) = 6 THEN "Wide" ELSE "Normal"]>>

\* Parameter::from_str / TryFrom<&[u8]>: exactly four chars parsing as u16 <= 9999
ParameterFromBytes(s) ==
    IF Len(s) # 4 \/ \E i \in 1..Len(s) : ~IsDigit(s[i]) THEN None
    ELSE <<DigitsToInt(s, 4)>>

\* ------------------------------------------------------------------------
\* nom_parser.rs.  An IResult is Ok(rest, val), Err(Error) or Err(Incomplete).

IOk(rest, val) == [k |-> "Ok", rest |-> rest, val |-> val]

IErr(kind) == [k |-> kind, rest |-> << >>, val |-> << >>]

\* Command tokens.  nom_parser.rs spells the three short forms ReadAgain(1),
\* ReadAgain(0), ReadAgain(-1); node.rs and scanner.rs match on them as
\* ReadNext, ReadAgain, ReadPrevious, the names used here.
Token(t, a, p, v) == [t |-> t, a |-> a, p |-> p, v |-> v]

NeedData == Token("NeedData", 0 - 1, 0 - 1, NoValue)

\* the predicates handed to take_while_m_n
CharCond(cond, c) ==
    IF cond = "is_ascii_digit" THEN IsDigit(c) ELSE IsValueChar(c)

\* number of leading bytes of buf that satisfy cond
LeadLen(cond, buf) ==
    CHOOSE k \in 0..Len(buf) :
        /\ \A i \in 1..k : CharCond(cond, buf[i])
        /\ (k = Len(buf) \/ ~CharCond(cond, buf[k + 1]))

\* fault: nom::bytes::complete::take_while_m_n, which fails on short input
take_while_m_n_complete(m, n, cond, buf) ==
    The({IF idx >= m
         THEN (IF idx <= n
               THEN IOk(SliceFrom(buf, idx), SliceTo(buf, idx))
               ELSE IOk(SliceFrom(buf, n), SliceTo(buf, n)))
         ELSE IErr("Error")
         : idx \in {LeadLen(cond, buf)}})

\* nom::bytes::streaming::take_while_m_n(m, n, cond): val is the bytes taken
take_while_m_n(m, n, cond, buf) ==
    LET idx == LeadLen(cond, buf)
    IN  IF idx < Len(buf)
        THEN (IF idx >= m
              THEN (IF idx <= n
                    THEN IOk(SliceFrom(buf, idx), SliceTo(buf, idx))
                    ELSE IOk(SliceFrom(buf, n), SliceTo(buf, n)))
              ELSE IErr("Error"))
        ELSE (IF Len(buf) >= n
              THEN IOk(SliceFrom(buf, n), SliceTo(buf, n))
              ELSE IErr("Incomplete"))

\* nom::character::streaming::char(c)
ascii_char(c, buf) ==
    IF buf = << >> THEN IErr("Incomplete")
    ELSE IF buf[1] = c THEN IOk(Tail(buf), c)
    ELSE IErr("Error")

\* node::address: four digits, doubled tens digit and doubled units digit
address(buf) ==
    The({IF r.k # "Ok" THEN r
         ELSE LET x == r.val
              IN  IF x[1] = x[2] /\ x[3] = x[4]
                  THEN (IF (x[2] - 48) * 10 + (x[3] - 48) <= 99
                        THEN IOk(r.rest, (x[2] - 48) * 10 + (x[3] - 48))
                        ELSE IErr("Error"))
                  ELSE IErr("Error")
         : r \in {take_while_m_n(4, 4, "is_ascii_digit", buf)}})

\* parameter: four digits
parameter(buf) ==
    The({IF r.k # "Ok" THEN r
         ELSE The({IF p = None THEN IErr("Error") ELSE IOk(r.rest, p[1])
                   : p \in {ParameterFromBytes(r.val)}})
         : r \in {take_while_m_n(4, 4, "is_ascii_digit", buf)}})

\* the ETX that x328_value requires after the value v taken by r
x328_value_etx(r, v) ==
    IF v = None THEN IErr("Error")
    ELSE The({IF e.k # "Ok" THEN e ELSE IOk(e.rest, v[1])
              : e \in {ascii_char(ETX, r.rest)}})

\* x328_value: one to six sign or digit bytes that convert to a Value, then ETX
x328_value(buf) ==
    The({IF r.k # "Ok" THEN r ELSE x328_value_etx(r, ValueFromBytes(r.val))
         : r \in {take_while_m_n(1, 6, "value_char", buf)}})

\* the BCC check of stx_param_value_etx_bcc: s is the result of the STX, p of
\* the parameter and v of the value with its ETX
verify_bcc(s, p, v) ==
    IF v.k # "Ok" THEN v
    ELSE IF v.rest = << >> THEN IErr("Incomplete")
    ELSE IF bcc(SliceTo(s.rest, Len(s.rest) - Len(v.rest))) = v.rest[1]
         THEN IOk(Tail(v.rest), <<p.val, v.val>>)
         ELSE IErr("Error")

\* stx_param_value_etx_bcc: val is <<parameter, value>>
stx_param_value_etx_bcc(buf) ==
    The({IF s.k # "Ok" THEN s
         ELSE The({IF p.k # "Ok" THEN p ELSE verify_bcc(s, p, x328_value(p.rest))
                   : p \in {parameter(s.rest)}})
         : s \in {ascii_char(STX, buf)}})

\* fault: find_last_eot using position() instead of rposition()
find_first_eot(buf) ==
    IF \E i \in 1..Len(buf) : buf[i] = EOT
    THEN SubSeq(buf, CHOOSE i \in 1..Len(buf) :
                        buf[i] = EOT /\ \A j \in 1..(i - 1) : buf[j] # EOT,
                Len(buf))
    ELSE << >>

\* node::find_last_eot: the buffer from its last EOT on, empty without one
find_last_eot(buf) ==
    IF \E i \in 1..Len(buf) : buf[i] = EOT
    THEN LET pos == CHOOSE i \in 1..Len(buf) :
                        buf[i] = EOT /\ \A j \in (i + 1)..Len(buf) : buf[j] # EOT
         IN  SubSeq(buf, pos, Len(buf))
    ELSE << >>

\* node::eot_address
eot_address(buf) ==
    LET e == ascii_char(EOT, buf)
    IN  IF e.k # "Ok" THEN e ELSE address(e.rest)

\* node::read_command
read_command(buf) ==
    The({IF a.k # "Ok" THEN a
         ELSE The({IF p.k # "Ok" THEN p
                   ELSE The({IF q.k # "Ok" THEN q
                             ELSE IOk(q.rest,
                                      Token("ReadParameter", a.val, p.val, NoValue))
                             : q \in {ascii_char(ENQ, p.rest)}})
                   : p \in {parameter(a.rest)}})
         : a \in {eot_address(buf)}})

\* node::write_command
write_command(buf) ==
    The({IF a.k # "Ok" THEN a
         ELSE The({IF pv.k # "Ok" THEN pv
                   ELSE IOk(pv.rest,
                            Token("WriteParameter", a.val, pv.val[1], pv.val[2]))
                   : pv \in {stx_param_value_etx_bcc(a.rest)}})
         : a \in {eot_address(buf)}})

\* node::read_again: ACK, NAK or BS at the head of the buffer
read_again(buf) ==
    IF buf = << >> THEN IErr("Incomplete")
    ELSE IF buf[1] = ACK THEN IOk(Tail(buf), Token("ReadNext", 0 - 1, 0 - 1, NoValue))
    ELSE IF buf[1] = NAK THEN IOk(Tail(buf), Token("ReadAgain", 0 - 1, 0 - 1, NoValue))
    ELSE IF buf[1] = BS THEN IOk(Tail(buf), Token("ReadPrevious", 0 - 1, 0 - 1, NoValue))
    ELSE IErr("Error")

\* node::invalid_payload: EOT, an optional address, and everything up to the
\* last EOT that follows is dropped
invalid_payload(buf) ==
    LET e == ascii_char(EOT, buf)
    IN  IF e.k # "Ok" THEN e
        ELSE The({IF a.k = "Incomplete" THEN a
                  ELSE IF a.k = "Ok"
                       THEN IOk(find_last_eot(a.rest),
                                Token("InvalidPayload", a.val, 0 - 1, NoValue))
                       ELSE IOk(find_last_eot(e.rest), NeedData)
                  : a \in {address(e.rest)}})

\* nom alt((write_command, read_command, invalid_payload)): the first result
\* that is not Err(Error)
alt_commands(buf) ==
    The({IF w.k # "Error" THEN w
         ELSE The({IF r.k # "Error" THEN r ELSE invalid_payload(buf)
                   : r \in {read_command(buf)}})
         : w \in {write_command(buf)}})

\* node::alt_match: <<remaining, token>>
alt_match(buf) ==
    LET ra == read_again(buf)
    IN  IF ra.k = "Ok" THEN <<ra.rest, ra.val>>
        ELSE The({The({IF r.k = "Ok" THEN <<r.rest, r.val>> ELSE <<buf2, NeedData>>
                       : r \in {alt_commands(buf2)}})
                  : buf2 \in {find_last_eot(buf)}})

\* node::parse_command: <<consumed, token>>
\* fault: parse_command counting one byte more than it took for an invalid
\* command
parse_command_one_more(buf) ==
    The({<<(Len(buf) - Len(m[1])) + (IF m[2].t = "InvalidPayload" THEN 1 ELSE 0), m[2]>>
         : m \in {alt_match(buf)}})

parse_command(buf) ==
    The({<<Len(buf) - Len(m[1]), m[2]>> : m \in {alt_match(buf)}})

\* ------------------------------------------------------------------------
\* buffer.rs.  A Buffer is [data, read_pos, cap]; cap is the const BUF_SIZE.

\* Buffer::new
buffer_new(cap) == [data |-> << >>, read_pos |-> 0, cap |-> cap]

\* Buffer::len
buffer_len(b) == Len(b.data) - b.read_pos

\* fault: as_ref handing out the consumed bytes too
buffer_as_ref_whole(b) == b.data

\* Buffer::as_ref: the bytes from the read cursor on
buffer_as_ref(b) == SliceFrom(b.data, b.read_pos)

\* Buffer::consume (its assertion is len <= self.len())
buffer_consume(b, len) == [b EXCEPT !.read_pos = @ + len]

\* Buffer::clear
buffer_clear(b) == [b EXCEPT !.data = << >>, !.read_pos = 0]

\* the `*byte > 0x7f => 0` mapping applied to written bytes
MapNonAscii(bytes) == [i \in 1..Len(bytes) |-> IF bytes[i] > 127 THEN 0 ELSE bytes[i]]

\* Buffer::write keeping the first capacity bytes of an oversized input
buffer_write_keeps_head(b, bytes) ==
    The({LET b2 == IF Len(bytes) > b1.cap
                   THEN buffer_clear(b1)
                   ELSE LET cap == b1.cap - Len(b1.data)
                        IN  IF cap < Len(bytes)
                            THEN LET drain_len == Len(bytes) - cap
                                 IN  [b1 EXCEPT
                                        !.data = SliceFrom(@, drain_len),
                                        !.read_pos = IF @ > drain_len THEN @ - drain_len ELSE 0]
                            ELSE b1
             kept == IF Len(bytes) > b1.cap
                     THEN SliceTo(bytes, b1.cap) ELSE bytes
         IN  [b2 EXCEPT !.data = @ \o MapNonAscii(kept)]
         : b1 \in {IF b.read_pos = Len(b.data) THEN buffer_clear(b) ELSE b}})

\* Buffer::write leaving the read cursor where it was when it drops bytes
buffer_write_keeps_cursor(b, bytes) ==
    The({LET b2 == IF Len(bytes) > b1.cap
                   THEN buffer_clear(b1)
                   ELSE LET cap == b1.cap - Len(b1.data)
                        IN  IF cap < Len(bytes)
                            THEN LET drain_len == Len(bytes) - cap
                                 IN  [b1 EXCEPT !.data = SliceFrom(@, drain_len),
                                                !.read_pos = IF @ > Len(b1.data) - drain_len
                                                             THEN Len(b1.data) - drain_len
                                                             ELSE @]
                            ELSE b1
             kept == IF Len(bytes) > b1.cap
                     THEN SliceFrom(bytes, Len(bytes) - b1.cap) ELSE bytes
         IN  [b2 EXCEPT !.data = @ \o MapNonAscii(kept)]
         : b1 \in {IF b.read_pos = Len(b.data) THEN buffer_clear(b) ELSE b}})

\* Buffer::write
buffer_write(b, bytes) ==
    The({LET b2 == IF Len(bytes) > b1.cap
                   THEN buffer_clear(b1)
                   ELSE LET cap == b1.cap - Len(b1.data)
                        IN  IF cap < Len(bytes)
                            THEN LET drain_len == Len(bytes) - cap
                                 IN  [b1 EXCEPT
                                        !.data = SliceFrom(@, drain_len),
                                        !.read_pos = IF @ > drain_len THEN @ - drain_len ELSE 0]
                            ELSE b1
             kept == IF Len(bytes) > b1.cap
                     THEN SliceFrom(bytes, Len(bytes) - b1.cap) ELSE bytes
         IN  [b2 EXCEPT !.data = @ \o MapNonAscii(kept)]
         : b1 \in {IF b.read_pos = Len(b.data) THEN buffer_clear(b) ELSE b}})

\* Buffer::push
buffer_push(b, byte) ==
    IF Len(b.data) = b.cap THEN buffer_write(b, <<byte>>)
    ELSE [b EXCEPT !.data = Append(@, byte)]

\* Buffer::get_ref_and_clear: <<the unread bytes, the buffer with all consumed>>
buffer_get_ref_and_clear(b) ==
    <<SliceFrom(b.data, b.read_pos), buffer_consume(b, buffer_len(b))>>

\* ------------------------------------------------------------------------
\* node.rs.  A Node is [state, address, read_again_param, buffer].

\* enum InternalState
InternalState(kind, a, p, v) ==
    [kind |-> kind, address |-> a, parameter |-> p, value |-> v]

StRecv == InternalState("Recv", 0 - 1, 0 - 1, NoValue)

StSend == InternalState("Send", 0 - 1, 0 - 1, NoValue)

\* Node::new
node_new(a) ==
    [state |-> StRecv, address |-> a, read_again_param |-> None,
     buffer |-> buffer_new(DEFAULT_BUF_SIZE)]

\* fault: Node::state offering ReceiveData while a reply is still pending
state_recv_while_sending(n) ==
    IF n.state.kind \in {"Recv", "Send"} THEN "ReceiveData" ELSE "Command"

\* Node::state: the phase offered to the caller
state(n) ==
    IF n.state.kind = "Recv" THEN "ReceiveData"
    ELSE IF n.state.kind = "Send" THEN "SendData"
    ELSE "Command"

\* ReceiveData::from_state
ReceiveData_from_state(n) ==
    [n EXCEPT !.buffer = IF n.state # StRecv THEN buffer_clear(@) ELSE @,
              !.state = StRecv]

\* Node::no_reply, ReadParam::no_reply, WriteParam::no_reply
no_reply(n) == ReceiveData_from_state(n)

\* SendData::from_state
SendData_from_state(n) == [n EXCEPT !.state = StSend]

\* SendData::from_byte
SendData_from_byte(n, byte) ==
    SendData_from_state([n EXCEPT !.buffer = buffer_push(buffer_clear(@), byte)])

\* ReadParam::from_state
ReadParam_from_state(n, a, p) ==
    [n EXCEPT !.state = InternalState("Read", a, p, NoValue)]

\* WriteParam::from_state
WriteParam_from_state(n, a, p, v) ==
    [n EXCEPT !.state = InternalState("Write", a, p, v)]

\* fault: for_us accepting every address
for_us_any(n, a) == TRUE

\* fault: for_us without the address 0 rule
for_us_exact(n, a) == n.address = a

\* ReceiveData::for_us
for_us(n, a) == n.address = a \/ n.address = 0

RECURSIVE parse_loop_keeps_context(_, _)
\* fault: the parse loop without `self.state.read_again_param.take()`
parse_loop_keeps_context(buffer, rap) ==
    The({IF pc[1] = 0
         THEN [need_data |-> TRUE, buffer |-> buffer, node_rap |-> rap,
               token |-> NeedData, read_again_param |-> None]
         ELSE LET buffer2 == buffer_consume(buffer, pc[1])
              IN  IF buffer_len(buffer2) = 0
                  THEN [need_data |-> FALSE, buffer |-> buffer2, node_rap |-> rap,
                        token |-> pc[2], read_again_param |-> rap]
                  ELSE parse_loop_keeps_context(buffer2, rap)
         : pc \in {parse_command(buffer_as_ref(buffer))}})

RECURSIVE parse_loop_steps(_)
\* the iterations of the loop of ReceiveData::parse_buffer, one record each:
\* the unread bytes on entry, the count parse_command returned, and whether
\* the iteration left the loop (the last one does)
parse_loop_steps(buffer) ==
    The({IF pc[1] = 0 \/ pc[1] >= buffer_len(buffer)
         THEN <<[unread |-> buffer_len(buffer), consumed |-> pc[1], leaves |-> TRUE]>>
         ELSE <<[unread |-> buffer_len(buffer), consumed |-> pc[1], leaves |-> FALSE]>>
              \o parse_loop_steps(buffer_consume(buffer, pc[1]))
         : pc \in {parse_command(buffer_as_ref(buffer))}})

\* fault: a parse loop that breaks with the first token it consumes
parse_loop_first_token(buffer, rap) ==
    The({IF pc[1] = 0
         THEN [need_data |-> TRUE, buffer |-> buffer, node_rap |-> rap,
               token |-> NeedData, read_again_param |-> None]
         ELSE [need_data |-> FALSE, buffer |-> buffer_consume(buffer, pc[1]),
               node_rap |-> None, token |-> pc[2], read_again_param |-> rap]
         : pc \in {parse_command(buffer_as_ref(buffer))}})

RECURSIVE parse_loop(_, _)
\* the loop of ReceiveData::parse_buffer.  rap is the node's read_again_param
\* on entry to an iteration.  The result holds the buffer and the node's
\* read_again_param on exit, whether the loop returned need_data, and, when
\* it broke, the last token and the read_again_param taken in that iteration.
parse_loop(buffer, rap) ==
    The({IF pc[1] = 0
         THEN [need_data |-> TRUE, buffer |-> buffer, node_rap |-> rap,
               token |-> NeedData, read_again_param |-> None]
         ELSE LET buffer2 == buffer_consume(buffer, pc[1])
              IN  IF buffer_len(buffer2) = 0
                  THEN [need_data |-> FALSE, buffer |-> buffer2, node_rap |-> None,
                        token |-> pc[2], read_again_param |-> rap]
                  ELSE parse_loop(buffer2, None)
         : pc \in {parse_command(buffer_as_ref(buffer))}})

\* fault: the InvalidPayload arm guarded by for_us instead of address equality
nak_for_any(n, a) == n.address = a \/ n.address = 0

\* the guard of the InvalidPayload arm of parse_buffer's match
nak_for_us(n, a) == a = n.address

\* fault: a short form without read-again context answered with NAK
match_token_nak_unknown(n, token, read_again_param) ==
    IF token.t = "ReadParameter" /\ for_us(n, token.a)
    THEN ReadParam_from_state(n, token.a, token.p)
    ELSE IF token.t = "WriteParameter" /\ for_us(n, token.a)
    THEN WriteParam_from_state(n, token.a, token.p, token.v)
    ELSE IF token.t \in {"ReadAgain", "ReadNext", "ReadPrevious"}
    THEN (IF read_again_param = None THEN SendData_from_byte(n, NAK)
          ELSE LET param == IF token.t = "ReadPrevious"
                            THEN ParameterPrev(read_again_param[2])
                            ELSE IF token.t = "ReadNext"
                            THEN ParameterNext(read_again_param[2])
                            ELSE <<read_again_param[2]>>
               IN  IF param # None
                   THEN ReadParam_from_state(n, read_again_param[1], param[1])
                   ELSE SendData_from_byte(n, EOT))
    ELSE IF token.t = "InvalidPayload" /\ nak_for_us(n, token.a)
    THEN SendData_from_byte(n, NAK)
    ELSE n

\* fault: the ReadParameter arm without its `if self.for_us(address)` guard
match_token_reads_for_all(n, token, read_again_param) ==
    IF token.t = "ReadParameter"
    THEN ReadParam_from_state(n, token.a, token.p)
    ELSE IF token.t = "WriteParameter" /\ for_us(n, token.a)
    THEN WriteParam_from_state(n, token.a, token.p, token.v)
    ELSE IF token.t \in {"ReadAgain", "ReadNext", "ReadPrevious"}
            /\ read_again_param # None
    THEN LET addr == read_again_param[1]
             last_param == read_again_param[2]
             param == IF token.t = "ReadPrevious" THEN ParameterPrev(last_param)
                      ELSE IF token.t = "ReadNext" THEN ParameterNext(last_param)
                      ELSE <<last_param>>
         IN  IF param # None
             THEN ReadParam_from_state(n, addr, param[1])
             ELSE SendData_from_byte(n, EOT)
    ELSE IF token.t = "InvalidPayload" /\ nak_for_us(n, token.a)
    THEN SendData_from_byte(n, NAK)
    ELSE n

\* the `match token` of ReceiveData::parse_buffer; read_again_param is the
\* value taken from the node in the last loop iteration
match_token(n, token, read_again_param) ==
    IF token.t = "ReadParameter" /\ for_us(n, token.a)
    THEN ReadParam_from_state(n, token.a, token.p)
    ELSE IF token.t = "WriteParameter" /\ for_us(n, token.a)
    THEN WriteParam_from_state(n, token.a, token.p, token.v)
    ELSE IF token.t \in {"ReadAgain", "ReadNext", "ReadPrevious"}
            /\ read_again_param # None
    THEN LET addr == read_again_param[1]
             last_param == read_again_param[2]
             param == IF token.t = "ReadPrevious" THEN ParameterPrev(last_param)
                      ELSE IF token.t = "ReadNext" THEN ParameterNext(last_param)
                      ELSE <<last_param>>
         IN  IF param # None
             THEN ReadParam_from_state(n, addr, param[1])
             ELSE SendData_from_byte(n, EOT)
    ELSE IF token.t = "InvalidPayload" /\ nak_for_us(n, token.a)
    THEN SendData_from_byte(n, NAK)
    ELSE n

\* ReceiveData::parse_buffer
parse_buffer(n) ==
    The({LET n1 == [n EXCEPT !.buffer = l.buffer, !.read_again_param = l.node_rap]
         IN  IF l.need_data THEN n1
             ELSE match_token(n1, l.token, l.read_again_param)
         : l \in {parse_loop(n.buffer, n.read_again_param)}})

\* ReceiveData::receive_data
receive_data(n, data) ==
    parse_buffer([n EXCEPT !.buffer = buffer_write(@, data)])

\* SendData::send_data: <<the bytes to transmit, the node>>
send_data(n) ==
    LET r == buffer_get_ref_and_clear(n.buffer)
    IN  <<r[1], [n EXCEPT !.state = StRecv, !.buffer = r[2]]>>

\* fault: send_reply_ok with the BCC computed over the STX as well
send_reply_ok_bcc_from_stx(n, value) ==
    LET n1 == [n EXCEPT !.read_again_param = <<n.state.address, n.state.parameter>>]
    IN  The({IF vb = Panic
             THEN [n1 EXCEPT !.state = InternalState("Panicked", 0 - 1, 0 - 1, NoValue)]
             ELSE SendData_from_state([n1 EXCEPT !.buffer = The(
                  {buffer_push(d4, bcc(buffer_as_ref(d4)))
                   : d4 \in {buffer_push(d3, ETX)
                   : d3 \in {buffer_write(d2, vb)
                   : d2 \in {buffer_write(d1, ParameterToBytes(n.state.parameter))
                   : d1 \in {buffer_push(buffer_clear(n1.buffer), STX)}}}}})])
             : vb \in {ValueToBytes(value)}})

\* ReadParam::send_reply_ok.  A panicking Value::to_bytes leaves state Panicked.
send_reply_ok(n, value) ==
    LET n1 == [n EXCEPT !.read_again_param = <<n.state.address, n.state.parameter>>]
    IN  The({IF vb = Panic
             THEN [n1 EXCEPT !.state = InternalState("Panicked", 0 - 1, 0 - 1, NoValue)]
             ELSE SendData_from_state([n1 EXCEPT !.buffer = The(
                  {buffer_push(d4, bcc(SliceFrom(buffer_as_ref(d4), 1)))
                   : d4 \in {buffer_push(d3, ETX)
                   : d3 \in {buffer_write(d2, vb)
                   : d2 \in {buffer_write(d1, ParameterToBytes(n.state.parameter))
                   : d1 \in {buffer_push(buffer_clear(n1.buffer), STX)}}}}})])
             : vb \in {ValueToBytes(value)}})

\* fault: send_invalid_parameter answering as send_read_failed does
send_invalid_parameter_as_nak(n) == SendData_from_byte(n, NAK)

\* ReadParam::send_invalid_parameter
send_invalid_parameter(n) == SendData_from_byte(n, EOT)

\* ReadParam::send_read_failed
send_read_failed(n) == SendData_from_byte(n, NAK)

\* WriteParam::write_ok
write_ok(n) == SendData_from_byte(n, ACK)

\* WriteParam::write_error
write_error(n) == SendData_from_byte(n, NAK)

\* ------------------------------------------------------------------------
\* nom_parser.rs, mod master: response tokens are [t, p, v]

RToken(t, p, v) == [t |-> t, p |-> p, v |-> v]

\* master::parse_response applied to all_consuming(r)
parse_response(r) ==
    IF r.k = "Ok"
    THEN (IF r.rest = << >> THEN r.val ELSE RToken("InvalidDataReceived", 0 - 1, NoValue))
    ELSE IF r.k = "Incomplete" THEN RToken("NeedData", 0 - 1, NoValue)
    ELSE RToken("InvalidDataReceived", 0 - 1, NoValue)

\* master::parse_write_response
parse_write_response(buf) ==
    parse_response(
        IF buf = << >> THEN IErr("Incomplete")
        ELSE IF buf[1] = ACK THEN IOk(Tail(buf), RToken("WriteOk", 0 - 1, NoValue))
        ELSE IF buf[1] = NAK THEN IOk(Tail(buf), RToken("WriteFailed", 0 - 1, NoValue))
        ELSE IF buf[1] = EOT THEN IOk(Tail(buf), RToken("InvalidParameter", 0 - 1, NoValue))
        ELSE IErr("Error"))

\* fault: parse_read_response with NAK among its alternatives, as a refusal
parse_read_response_takes_nak(buf) ==
    parse_response(
        IF buf = << >> THEN IErr("Incomplete")
        ELSE IF buf[1] \in {EOT, NAK}
             THEN IOk(Tail(buf), RToken("InvalidParameter", 0 - 1, NoValue))
        ELSE The({IF r.k = "Ok" THEN IOk(r.rest, RToken("ReadOk", r.val[1], r.val[2]))
                  ELSE r
                  : r \in {stx_param_value_etx_bcc(buf)}}))

\* master::parse_read_response
parse_read_response(buf) ==
    parse_response(
        IF buf = << >> THEN IErr("Incomplete")
        ELSE IF buf[1] = EOT THEN IOk(Tail(buf), RToken("InvalidParameter", 0 - 1, NoValue))
        ELSE The({IF r.k = "Ok" THEN IOk(r.rest, RToken("ReadOk", r.val[1], r.val[2]))
                  ELSE r
                  : r \in {stx_param_value_etx_bcc(buf)}}))

\* ------------------------------------------------------------------------
\* master.rs.  A Master is [read_again, nodes]; nodes is the set of addresses
\* whose NodeState.can_read_again is true.  A request handle (SendData, then
\* the Receiver it yields) is [phase, kind, data, buffer, address,
\* expected_param]; it borrows the Master mutably while it lives.

\* Master::new
master_new == [read_again |-> None, nodes |-> {}]

\* Master::read_again_enable
read_again_enable(m, a, can_read_again) ==
    [m EXCEPT !.nodes = IF can_read_again THEN @ \cup {a} ELSE @ \ {a}]

\* Master::get_node_capabilities(address).can_read_again
get_node_capabilities(m, a) == a \in m.nodes

\* fault: try_read_again reading the context without `take()`
try_read_again_peek(m, a, p) ==
    IF m.read_again = None THEN <<None, m>>
    ELSE IF m.read_again[1] = a /\ get_node_capabilities(m, a)
    THEN (IF p - m.read_again[2] = 0 THEN <<<<NAK>>, m>>
          ELSE IF p - m.read_again[2] = 1 THEN <<<<ACK>>, m>>
          ELSE IF p - m.read_again[2] = 0 - 1 THEN <<<<BS>>, m>>
          ELSE <<None, m>>)
    ELSE <<None, m>>

\* fault: try_read_again without the comparison of the addresses
try_read_again_any_address(m, a, p) ==
    LET m1 == [m EXCEPT !.read_again = None]
    IN  IF m.read_again = None THEN <<None, m1>>
        ELSE LET old_param == m.read_again[2]
             IN  IF get_node_capabilities(m, a)
                 THEN (IF p - old_param = 0 THEN <<<<NAK>>, m1>>
                       ELSE IF p - old_param = 1 THEN <<<<ACK>>, m1>>
                       ELSE IF p - old_param = 0 - 1 THEN <<<<BS>>, m1>>
                       ELSE <<None, m1>>)
                 ELSE <<None, m1>>

\* fault: try_read_again with the bytes for the next and the previous
\* parameter exchanged
try_read_again_swapped(m, a, p) ==
    LET m1 == [m EXCEPT !.read_again = None]
    IN  IF m.read_again = None THEN <<None, m1>>
        ELSE LET old_addr == m.read_again[1]
                 old_param == m.read_again[2]
             IN  IF old_addr = a /\ get_node_capabilities(m, a)
                 THEN (IF p - old_param = 0 THEN <<<<NAK>>, m1>>
                       ELSE IF p - old_param = 1 THEN <<<<BS>>, m1>>
                       ELSE IF p - old_param = 0 - 1 THEN <<<<ACK>>, m1>>
                       ELSE <<None, m1>>)
                 ELSE <<None, m1>>

\* Master::try_read_again: <<the short form byte or None, the master>>
try_read_again(m, a, p) ==
    LET m1 == [m EXCEPT !.read_again = None]
    IN  IF m.read_again = None THEN <<None, m1>>
        ELSE LET old_addr == m.read_again[1]
                 old_param == m.read_again[2]
             IN  IF old_addr = a /\ get_node_capabilities(m, a)
                 THEN (IF p - old_param = 0 THEN <<<<NAK>>, m1>>
                       ELSE IF p - old_param = 1 THEN <<<<ACK>>, m1>>
                       ELSE IF p - old_param = 0 - 1 THEN <<<<BS>>, m1>>
                       ELSE <<None, m1>>)
                 ELSE <<None, m1>>

\* fault: write_parameter computing the BCC from the STX byte on
write_parameter_data_bcc_from_stx(a, p, v) ==
    LET data == <<EOT>> \o AddressToBytes(a) \o <<STX>> \o ParameterToBytes(p)
                \o ValueToBytes(v) \o <<ETX>>
    IN  Append(data, bcc(SliceFrom(data, 5)))

\* the bytes Master::write_parameter puts into its SendDataStore
write_parameter_data(a, p, v) ==
    LET data == <<EOT>> \o AddressToBytes(a) \o <<STX>> \o ParameterToBytes(p)
                \o ValueToBytes(v) \o <<ETX>>
    IN  Append(data, bcc(SliceFrom(data, 6)))

\* the long form read command of Master::read_parameter
read_parameter_data(a, p) ==
    <<EOT>> \o AddressToBytes(a) \o ParameterToBytes(p) \o <<ENQ>>

\* fault: a receiver whose buffer still holds a byte of an earlier exchange
Handle_stale_buffer(phase, kind, data, a, p) ==
    [phase |-> phase, kind |-> kind, data |-> data,
     buffer |-> buffer_write(buffer_new(DEFAULT_BUF_SIZE), <<48>>),
     address |-> a, expected_param |-> p]

Handle(phase, kind, data, a, p) ==
    [phase |-> phase, kind |-> kind, data |-> data,
     buffer |-> buffer_new(DEFAULT_BUF_SIZE), address |-> a, expected_param |-> p]

\* fault: write_parameter without `self.read_again = None`
write_parameter_keeps_context(m, a, p, v) ==
    <<m, Handle("SendData", "write", write_parameter_data(a, p, v), a, p)>>

\* Master::write_parameter: <<the master, the SendData handle>>
write_parameter(m, a, p, v) ==
    <<[m EXCEPT !.read_again = None],
      Handle("SendData", "write", write_parameter_data(a, p, v), a, p)>>

\* fault: read_parameter that looks at the read-again context without taking it
read_parameter_keeps_context(m, a, p) ==
    LET again == try_read_again(m, a, p)
        data == IF again[1] # None THEN again[1] ELSE read_parameter_data(a, p)
    IN  <<m, Handle("SendData", "read", data, a, p)>>

\* Master::read_parameter: <<the master, the SendData handle>>
read_parameter(m, a, p) ==
    LET again == try_read_again(m, a, p)
        data == IF again[1] # None THEN again[1] ELSE read_parameter_data(a, p)
    IN  <<again[2], Handle("SendData", "read", data, a, p)>>

\* fault: requests created without exclusive access to the Master
can_borrow_mut_unchecked(live) == TRUE

\* `&mut self` in write_parameter / read_parameter and the `&'a mut Master`
\* the handle keeps: a request can be created only while no handle lives
can_borrow_mut(live) == live = {}

\* SendData::data_sent
data_sent(h) == [h EXCEPT !.phase = "Receiver"]

\* fault: ReceiveWriteResponse::receive_data waiting for more bytes on
\* NeedData, as the read receiver does
ReceiveWriteResponse_receive_data_waits(m, h, data) ==
    The({The({IF tok.t = "NeedData"
              THEN <<"NeedData", [r |-> "None", v |-> NoValue], m, h1>>
              ELSE IF tok.t = "WriteOk"
                   THEN <<"Done", [r |-> "Ok", v |-> NoValue], m, h1>>
              ELSE IF tok.t \in {"WriteFailed", "InvalidParameter"}
                   THEN <<"Done", [r |-> "CommandFailed", v |-> NoValue], m, h1>>
              ELSE <<"Done", [r |-> "ProtocolError", v |-> NoValue], m, h1>>
              : tok \in {parse_write_response(buffer_as_ref(h1.buffer))}})
         : h1 \in {[h EXCEPT !.buffer = buffer_write(@, data)]}})

\* ReceiveWriteResponse::receive_data: <<"Done", result, master, handle>>
ReceiveWriteResponse_receive_data(m, h, data) ==
    The({IF tok.t = "WriteOk" THEN <<"Done", [r |-> "Ok", v |-> NoValue], m, h>>
         ELSE IF tok.t \in {"WriteFailed", "InvalidParameter"}
              THEN <<"Done", [r |-> "CommandFailed", v |-> NoValue], m, h>>
         ELSE <<"Done", [r |-> "ProtocolError", v |-> NoValue], m, h>>
         : tok \in {parse_write_response(buffer_as_ref(buffer_write(h.buffer, data)))}})

\* fault: ReceiveReadResponse::receive_data without the guard on the parameter
ReceiveReadResponse_receive_data_any_param(m, h, data) ==
    The({The({IF tok.t = "NeedData"
              THEN <<"NeedData", [r |-> "None", v |-> NoValue], m, h1>>
              ELSE IF tok.t = "ReadOk"
                   THEN <<"Done", [r |-> "Ok", v |-> tok.v],
                          [m EXCEPT !.read_again = <<h.address, tok.p>>], h1>>
              ELSE IF tok.t = "InvalidParameter"
                   THEN <<"Done", [r |-> "InvalidParameter", v |-> NoValue], m, h1>>
              ELSE <<"Done", [r |-> "ProtocolError", v |-> NoValue], m, h1>>
              : tok \in {parse_read_response(buffer_as_ref(h1.buffer))}})
         : h1 \in {[h EXCEPT !.buffer = buffer_write(@, data)]}})

\* ReceiveReadResponse::receive_data: <<"Done" or "NeedData", result, master, handle>>
ReceiveReadResponse_receive_data(m, h, data) ==
    The({The({IF tok.t = "NeedData"
              THEN <<"NeedData", [r |-> "None", v |-> NoValue], m, h1>>
              ELSE IF tok.t = "ReadOk" /\ tok.p = h.expected_param
                   THEN <<"Done", [r |-> "Ok", v |-> tok.v],
                          [m EXCEPT !.read_again = <<h.address, tok.p>>], h1>>
              ELSE IF tok.t = "InvalidParameter"
                   THEN <<"Done", [r |-> "InvalidParameter", v |-> NoValue], m, h1>>
              ELSE <<"Done", [r |-> "ProtocolError", v |-> NoValue], m, h1>>
              : tok \in {parse_read_response(buffer_as_ref(h1.buffer))}})
         : h1 \in {[h EXCEPT !.buffer = buffer_write(@, data)]}})

\* ------------------------------------------------------------------------
\* scanner.rs

\* A Scanner is [expect, read_again]: expect is an Expect, read_again is None
\* or <<A, P>>.  Its functions return <<consumed, event or None, the scanner>>.

\* enum Expect
Expect(kind, a, p) == [kind |-> kind, a |-> a, p |-> p]

ExpectCommand == Expect("Command", 0, 0)

\* enum ControllerEvent, as Some(event)
SomeCtrl(e, a, p, v) == <<[ch |-> "Ctrl", e |-> e, a |-> a, p |-> p, v |-> v]>>

\* enum NodeEvent, as Some(event); r is the Result it carries
SomeNode(e, r) == <<[ch |-> "Node", e |-> e, r |-> r]>>

\* Scanner::new
scanner_new == [expect |-> ExpectCommand, read_again |-> None]

\* nom_parser::node::scan_command: the parser of the Node, applied to
\* controller traffic: <<consumed, token>>
scan_command(data) == parse_command(data)

\* fault: a scanner that still expects the response after the timeout
ctrl_timeout_stays_expecting(sc) ==
    <<0, SomeCtrl("NodeTimeout", 0, 0, NoValue), [sc EXCEPT !.read_again = None]>>

\* recv_from_ctrl while a response is expected
ctrl_timeout(sc) ==
    <<0, SomeCtrl("NodeTimeout", 0, 0, NoValue),
      [expect |-> ExpectCommand, read_again |-> None]>>

\* fault: an observed read that leaves no read-again context
ctrl_read_forgets_context(consumed, a, p) ==
    <<consumed, SomeCtrl("Read", a, p, NoValue),
      [expect |-> Expect("ReadResponse", a, p), read_again |-> None]>>

\* the CommandToken::ReadParameter arm, and the closure of the short forms
ctrl_read(consumed, a, p) ==
    <<consumed, SomeCtrl("Read", a, p, NoValue),
      [expect |-> Expect("ReadResponse", a, p), read_again |-> <<a, p>>]>>

\* fault: read-next and read-previous without the check of the range
read_again_param_unchecked(t, rp) ==
    IF t = "ReadPrevious" THEN <<rp - 1>>
    ELSE IF t = "ReadAgain" THEN <<rp>>
    ELSE ParameterNextUnchecked(rp)

\* the parameter a short form stands for, given the parameter read before
read_again_param(t, rp) ==
    IF t = "ReadPrevious" THEN ParameterPrev(rp)
    ELSE IF t = "ReadAgain" THEN <<rp>>
    ELSE ParameterNext(rp)

\* Scanner::recv_from_ctrl
recv_from_ctrl(sc, data) ==
    IF sc.expect.kind # "Command" THEN ctrl_timeout(sc)
    ELSE The({LET consumed == r[1]
                  token == r[2]
                  sc1 == [sc EXCEPT !.read_again = None]
              IN  IF token.t = "WriteParameter"
                  THEN <<consumed, SomeCtrl("Write", token.a, token.p, token.v),
                         [sc1 EXCEPT !.expect = Expect("WriteResponse", 0, 0)]>>
                  ELSE IF token.t = "ReadParameter"
                       THEN ctrl_read(consumed, token.a, token.p)
                  ELSE IF token.t \in {"ReadPrevious", "ReadAgain", "ReadNext"}
                          /\ sc.read_again # None
                       THEN LET np == read_again_param(token.t, sc.read_again[2])
                            IN  IF np = None THEN <<consumed, None, sc1>>
                                ELSE ctrl_read(consumed, sc.read_again[1], np[1])
                  ELSE <<consumed, None, sc1>>
              : r \in {scan_command(data)}})

\* the `while let Some(byte) = data.next()` loops of recv_from_node: the
\* bytes go to the receiver one at a time; <<bytes taken, Some(result)>> at
\* the first result, <<0, None>> without one
RECURSIVE feed_receiver(_, _, _, _)
feed_receiver(m, h, data, i) ==
    IF i > Len(data) THEN <<0, None>>
    ELSE The({IF r[1] = "Done" THEN <<i, <<r[2]>>>>
              ELSE feed_receiver(r[3], r[4], data, i + 1)
              : r \in {IF h.kind = "write"
                       THEN ReceiveWriteResponse_receive_data(m, h, <<data[i]>>)
                       ELSE ReceiveReadResponse_receive_data(m, h, <<data[i]>>)}})

\* fault: recv_from_node that keeps expecting the response it has reported
recv_from_node_stays_expecting(sc, data) ==
    IF sc.expect.kind = "Command"
    THEN <<Len(data), SomeNode("UnexpectedTransmission", [r |-> "None", v |-> NoValue]), sc>>
    ELSE The({IF f[2] = None THEN <<0, None, sc>>
              ELSE <<f[1],
                     SomeNode(IF sc.expect.kind = "ReadResponse" THEN "Read" ELSE "Write",
                              f[2][1]),
                     sc>>
              : f \in {IF sc.expect.kind = "ReadResponse"
                       THEN feed_receiver(
                                read_parameter(master_new, sc.expect.a, sc.expect.p)[1],
                                data_sent(read_parameter(master_new, sc.expect.a,
                                                         sc.expect.p)[2]),
                                data, 1)
                       ELSE feed_receiver(
                                write_parameter(master_new, 1, 1, ValueNew(1)[1])[1],
                                data_sent(write_parameter(master_new, 1, 1,
                                                          ValueNew(1)[1])[2]),
                                data, 1)}})

\* Scanner::recv_from_node
recv_from_node(sc, data) ==
    IF sc.expect.kind = "Command"
    THEN <<Len(data), SomeNode("UnexpectedTransmission", [r |-> "None", v |-> NoValue]), sc>>
    ELSE The({IF f[2] = None THEN <<0, None, sc>>
              ELSE <<f[1],
                     SomeNode(IF sc.expect.kind = "ReadResponse" THEN "Read" ELSE "Write",
                              f[2][1]),
                     [sc EXCEPT !.expect = ExpectCommand]>>
              : f \in {IF sc.expect.kind = "ReadResponse"
                       THEN feed_receiver(
                                read_parameter(master_new, sc.expect.a, sc.expect.p)[1],
                                data_sent(read_parameter(master_new, sc.expect.a,
                                                         sc.expect.p)[2]),
                                data, 1)
                       ELSE feed_receiver(
                                write_parameter(master_new, 1, 1, ValueNew(1)[1])[1],
                                data_sent(write_parameter(master_new, 1, 1,
                                                          ValueNew(1)[1])[2]),
                                data, 1)}})

\* ------------------------------------------------------------------------
\* tests/chat.rs: scanner_thread.  Its loops return [scanner, buf, events]
\* and whether the thread moves on to the other channel.

\* the `while !buf.is_empty()` loop over recv_from_ctrl
RECURSIVE ctrl_while(_, _, _)
ctrl_while(sc, buf, events) ==
    IF buf = << >>
    THEN [scanner |-> sc, buf |-> buf, events |-> events, switch |-> FALSE]
    ELSE The({The({IF r[2] = None
                   THEN [scanner |-> r[3], buf |-> rest, events |-> events,
                         switch |-> FALSE]
                   ELSE IF rest = << >>
                        THEN [scanner |-> r[3], buf |-> rest, events |-> events \o r[2],
                              switch |-> TRUE]
                        ELSE ctrl_while(r[3], rest, events \o r[2])
                   : rest \in {SliceFrom(buf, r[1])}})
              : r \in {recv_from_ctrl(sc, buf)}})

\* the `while !buf.is_empty()` loop over recv_from_node, and the
\* `if buf.is_empty() { break; }` after it
RECURSIVE node_while(_, _, _)
node_while(sc, buf, events) ==
    IF buf = << >>
    THEN [scanner |-> sc, buf |-> buf, events |-> events, switch |-> TRUE]
    ELSE The({The({IF r[2] = None
                   THEN [scanner |-> r[3], buf |-> rest, events |-> events,
                         switch |-> rest = << >>]
                   ELSE node_while(r[3], rest, events \o r[2])
                   : rest \in {SliceFrom(buf, r[1])}})
              : r \in {recv_from_node(sc, buf)}})

\* ------------------------------------------------------------------------
\* The state

VARIABLES
    node,        \* the Node
    n_op,        \* the last operation applied to the node
    n_in,        \* the bytes given to the last receive_data
    n_arg,       \* the Value given to the last send_reply_ok
    n_out,       \* the bytes the last operation handed out for transmission
    n_answered,  \* <<A, P>> while the last thing the node consumed is a read of
                 \* (A, P) that it answered with send_reply_ok, else None
    n_pre,       \* node, n_op, n_in and n_answered before the last operation
    n_recvs,     \* number of receive_data calls so far
    master,      \* the Master
    handles,     \* the request handles alive (each borrows the Master)
    m_op,        \* the last operation applied to the controller
    m_last,      \* the last exchange started: [kind, a, p, outcome]
    m_prev,      \* m_last as it was when the last request was created
    m_pre,       \* master and handles before the last operation
    m_result,    \* the result of the last receive_data that returned Done
    m_reqs,      \* number of requests created so far
    m_chunks,    \* number of receive_data calls of the current exchange
    m_before,    \* the Master as it was when the last request was created
    m_rx,        \* all bytes given to receive_data in the current exchange
    m_enables,   \* number of read_again_enable calls so far
    c_op,        \* the conversion applied last: encode then parse
    c_in,        \* the [a, p, v] given to the encoder
    c_frame,     \* the bytes the encoder produced
    c_out,       \* what the parser made of c_frame
    bus_cn,      \* bytes in flight from the controller to the node
    bus_nc,      \* bytes in flight from the node to the controller
    bus_choice,  \* the reply the node chose in the current exchange: [c, v]
    b_buf,       \* a Buffer
    b_op,        \* the last operation applied to the Buffer
    b_in,        \* the bytes given to that operation
    b_pre,       \* the Buffer before that operation
    scanner,     \* the Scanner
    s_op,        \* the last operation applied to the Scanner
    s_in,        \* the bytes given to that operation
    s_out,       \* what it returned: <<consumed, event>>
    s_pre,       \* scanner, s_op, s_in and s_out before that operation, and
                 \* the s_out before those
    s_calls,     \* number of calls on the Scanner so far
    tap,         \* TRUE when a scanner thread has its interfaces on the bus
    sq_c,        \* controller bytes queued on the scanner's node interface
    sq_n,        \* node bytes queued on the scanner's master interface
    issued,      \* the commands the controller was asked for, in order, each
                 \* with whether its frame is a one byte short form
    s_buf,       \* the scanner thread's buffer
    s_phase,     \* the channel the scanner thread reads: "ctrl" or "node"
    s_events,    \* the controller events the scanner thread collected
    mn_nodes,    \* several nodes on one bus: address -> Node
    mn_stream,   \* all bytes the controller has written to that bus
    mn_pos,      \* address -> number of bytes of mn_stream the node has read
    mn_emits     \* number of writes of the controller to that bus

node_vars == <<node, n_op, n_in, n_arg, n_out, n_answered, n_pre, n_recvs>>

master_vars ==
    <<master, handles, m_op, m_last, m_prev, m_pre, m_result, m_reqs, m_chunks,
      m_before, m_rx, m_enables>>

codec_vars == <<c_op, c_in, c_frame, c_out>>

bus_vars == <<bus_cn, bus_nc, bus_choice>>

buffer_vars == <<b_buf, b_op, b_in, b_pre>>

scanner_vars == <<scanner, s_op, s_in, s_out, s_pre, s_calls>>

tap_vars == <<tap, sq_c, sq_n, issued, s_buf, s_phase, s_events>>

multi_vars == <<mn_nodes, mn_stream, mn_pos, mn_emits>>

unit_vars == <<buffer_vars, scanner_vars, multi_vars>>

vars ==
    <<node_vars, master_vars, codec_vars, bus_vars, buffer_vars, scanner_vars, tap_vars,
      multi_vars>>

\* ------------------------------------------------------------------------
\* Bounds and the inputs the environment draws from

\* receive_data calls on the node in one run
MaxRecv == 2

\* requests the controller creates in one run
MaxReq == 2

\* receive_data calls within one controller exchange
MaxChunks == 2

\* read_again_enable calls in one run
MaxEnable == 2

\* exchanges over the bus in one run
MaxExchanges == 2

\* length of the byte sequences given to bcc
MaxBccLen == 3

NodeAddrs == {0, 43}

CmdAddrs == {0, 19, 43}

CmdParams == {0, 1234, 9999}

V56 == ValueNew(56)[1]

VWide == ValueNew(0 - 54321)[1]

V4 == ValueNew(4)[1]

\* values built by the validated constructor Value::new
ReplyValues == {V4, V56, VWide}

Subst(s, i, b) == [s EXCEPT ![i] = b]

ShortForms == {<<ACK>>, <<NAK>>, <<BS>>}

ReadFrames == {read_parameter_data(a, p) : a \in CmdAddrs, p \in CmdParams}

WriteFrames ==
    {write_parameter_data(a, 1234, V56) : a \in CmdAddrs}
    \cup {write_parameter_data(43, 0, VWide)}

\* a read command with one byte of the parameter or the ENQ replaced by 'A'
GarbledReads(a) == {Subst(read_parameter_data(a, 1234), i, 65) : i \in 6..10}

\* a write command with 3 added to one byte after the address
GarbledWrites(a) ==
    LET f == write_parameter_data(a, 1234, V56)
    IN  {Subst(f, i, f[i] + 3) : i \in 6..Len(f)}

\* a write command whose BCC is off by one
BadBccWrites(a) ==
    LET f == write_parameter_data(a, 1234, V56)
    IN  {Subst(f, Len(f), f[Len(f)] + 1)}

Garbled(a) == GarbledReads(a) \cup GarbledWrites(a) \cup BadBccWrites(a)

\* the two parts of interrupted commands
Pieces ==
    LET r == read_parameter_data(43, 1234)
        w == write_parameter_data(43, 1234, V56)
    IN  {SliceTo(r, k) : k \in {1, 5, 7}} \cup {SliceFrom(r, k) : k \in {1, 5, 7}}
        \cup {SliceTo(w, 12), SliceFrom(w, 12)}

\* noise, and commands with bytes around them
Noise ==
    {<<48>>, <<200>>,
     read_parameter_data(43, 1234) \o <<48>>,
     <<ACK>> \o read_parameter_data(43, 1234)}

\* <<a command for node 43, the bytes that follow it in the same call>>
Followed ==
    {<<c, r>> : c \in {read_parameter_data(43, 1234), write_parameter_data(43, 1234, V56)},
                r \in {<<48>>, SliceTo(read_parameter_data(43, 1234), 5),
                       read_parameter_data(43, 9), write_parameter_data(43, 0, VWide)}}

NodeInputs ==
    ShortForms \cup ReadFrames \cup WriteFrames \cup Pieces \cup Noise
    \cup {x[1] \o x[2] : x \in Followed}
    \cup Garbled(43) \cup GarbledReads(0) \cup BadBccWrites(0) \cup GarbledReads(19)

\* ------------------------------------------------------------------------
\* The node driven by its caller

\* the controller before any request
MasterIdle ==
    /\ master = master_new
    /\ handles = {}
    /\ m_op = "new"
    /\ m_last = [kind |-> "none", a |-> 0 - 1, p |-> 0 - 1, outcome |-> "none"]
    /\ m_prev = [kind |-> "none", a |-> 0 - 1, p |-> 0 - 1, outcome |-> "none"]
    /\ m_pre = [master |-> master_new, handles |-> {}, op |-> "none"]
    /\ m_result = [r |-> "None", v |-> NoValue]
    /\ m_reqs = 0
    /\ m_chunks = 0
    /\ m_before = master_new
    /\ m_rx = << >>
    /\ m_enables = 0

\* no conversion made
CodecIdle ==
    /\ c_op = "none"
    /\ c_in = [a |-> 0, p |-> 0, v |-> NoValue]
    /\ c_frame = << >>
    /\ c_out = << >>

\* nothing on the wire
BusIdle ==
    /\ bus_cn = << >>
    /\ bus_nc = << >>
    /\ bus_choice = [c |-> "none", v |-> NoValue]

\* no scanner thread on the bus
TapIdle ==
    /\ sq_c = << >>
    /\ sq_n = << >>
    /\ issued = << >>
    /\ s_buf = << >>
    /\ s_phase = "ctrl"
    /\ s_events = << >>

\* the Buffer untouched
BufferIdle ==
    /\ b_buf = buffer_new(DEFAULT_BUF_SIZE)
    /\ b_op = "new"
    /\ b_in = << >>
    /\ b_pre = buffer_new(DEFAULT_BUF_SIZE)

\* the Scanner untouched
ScannerIdle ==
    /\ scanner = scanner_new
    /\ s_op = "new"
    /\ s_in = << >>
    /\ s_out = << >>
    /\ s_pre = [scanner |-> scanner_new, op |-> "none", in |-> << >>, out |-> << >>,
                before |-> << >>]
    /\ s_calls = 0

\* neither the Buffer nor the Scanner is used, and no scanner is attached
\* the addresses of the nodes that share one bus
MultiAddrs == {10, 43}

\* the nodes of the shared bus untouched
MultiIdle ==
    /\ mn_nodes = [a \in MultiAddrs |-> node_new(a)]
    /\ mn_stream = << >>
    /\ mn_pos = [a \in MultiAddrs |-> 0]
    /\ mn_emits = 0

UnitsIdle == BufferIdle /\ ScannerIdle /\ TapIdle /\ tap = FALSE /\ MultiIdle

NodeInit ==
    /\ node \in {node_new(a) : a \in NodeAddrs}
    /\ n_op = "new"
    /\ n_in = << >>
    /\ n_arg = NoValue
    /\ n_out = << >>
    /\ n_answered = None
    /\ n_pre = [node |-> node_new(0), op |-> "none", in |-> << >>, answered |-> None]
    /\ n_recvs = 0
    /\ MasterIdle
    /\ CodecIdle
    /\ BusIdle
    /\ UnitsIdle

NodeStep(op, data, arg, out, n2, answered) ==
    /\ node' = n2
    /\ n_op' = op
    /\ n_in' = data
    /\ n_arg' = arg
    /\ n_out' = out
    /\ n_answered' = answered
    /\ n_pre' = [node |-> node, op |-> n_op, in |-> n_in, answered |-> n_answered]
    /\ UNCHANGED <<master_vars, codec_vars, bus_vars, unit_vars, tap_vars>>

\* ReceiveData::receive_data(data), offered in phase ReceiveData
NodeReceive ==
    /\ state(node) = "ReceiveData"
    /\ n_recvs < MaxRecv
    /\ \E data \in NodeInputs :
          LET written == buffer_write(node.buffer, data)
              took == parse_command(buffer_as_ref(written))[1] > 0
          IN  NodeStep("receive_data", data, NoValue, << >>, receive_data(node, data),
                       IF took THEN None ELSE n_answered)
    /\ n_recvs' = n_recvs + 1

\* ReadParam::send_reply_ok(value)
NodeSendReplyOk ==
    /\ node.state.kind = "Read"
    /\ \E v \in ReplyValues :
          NodeStep("send_reply_ok", << >>, v, << >>, send_reply_ok(node, v),
                   <<node.state.address, node.state.parameter>>)
    /\ UNCHANGED n_recvs

\* ReadParam::send_invalid_parameter
NodeSendInvalidParameter ==
    /\ node.state.kind = "Read"
    /\ NodeStep("send_invalid_parameter", << >>, NoValue, << >>,
                send_invalid_parameter(node), n_answered)
    /\ UNCHANGED n_recvs

\* ReadParam::send_read_failed
NodeSendReadFailed ==
    /\ node.state.kind = "Read"
    /\ NodeStep("send_read_failed", << >>, NoValue, << >>,
                send_read_failed(node), n_answered)
    /\ UNCHANGED n_recvs

\* WriteParam::write_ok
NodeWriteOk ==
    /\ node.state.kind = "Write"
    /\ NodeStep("write_ok", << >>, NoValue, << >>, write_ok(node), n_answered)
    /\ UNCHANGED n_recvs

\* WriteParam::write_error
NodeWriteError ==
    /\ node.state.kind = "Write"
    /\ NodeStep("write_error", << >>, NoValue, << >>, write_error(node), n_answered)
    /\ UNCHANGED n_recvs

\* Node::no_reply in the phases Command and SendData (also ReadParam::no_reply
\* and WriteParam::no_reply)
NodeNoReply ==
    /\ state(node) # "ReceiveData"
    /\ NodeStep("no_reply", << >>, NoValue, << >>, no_reply(node), n_answered)
    /\ UNCHANGED n_recvs

\* SendData::send_data, offered in phase SendData
NodeSendData ==
    /\ state(node) = "SendData"
    /\ LET r == send_data(node)
       IN  NodeStep("send_data", << >>, NoValue, r[1], r[2], n_answered)
    /\ UNCHANGED n_recvs

NodeNext ==
    \/ NodeReceive
    \/ NodeSendReplyOk
    \/ NodeSendInvalidParameter
    \/ NodeSendReadFailed
    \/ NodeWriteOk
    \/ NodeWriteError
    \/ NodeNoReply
    \/ NodeSendData

NodeSpec == NodeInit /\ [][NodeNext]_vars

\* ------------------------------------------------------------------------
\* The controller driven by its caller

MAddrs == {10, 43}

MParams == {1234, 1235, 1236}

\* the bytes a node puts on the bus for send_reply_ok(v) to a read of p
ReplyFrame(p, v) ==
    buffer_as_ref(send_reply_ok(ReadParam_from_state(node_new(0), 0, p), v).buffer)

ResponseInputs ==
    LET f == ReplyFrame(1234, V4)
    IN  {<< >>, <<ACK>>, <<NAK>>, <<EOT>>, <<48>>}
        \cup {ReplyFrame(p, V4) : p \in MParams}
        \cup {SliceTo(f, 5), SliceFrom(f, 5), Subst(f, Len(f), f[Len(f)] + 1),
              f \o <<48>>}

\* the node untouched
NodeIdle ==
    /\ node = node_new(0)
    /\ n_op = "new"
    /\ n_in = << >>
    /\ n_arg = NoValue
    /\ n_out = << >>
    /\ n_answered = None
    /\ n_pre = [node |-> node_new(0), op |-> "none", in |-> << >>, answered |-> None]
    /\ n_recvs = 0

MasterInit == MasterIdle /\ NodeIdle /\ CodecIdle /\ BusIdle /\ UnitsIdle

MasterStep(op, m2, hs2) ==
    /\ master' = m2
    /\ handles' = hs2
    /\ m_op' = op
    /\ m_pre' = [master |-> master, handles |-> handles, op |-> m_op]
    /\ UNCHANGED <<node_vars, codec_vars, bus_vars, unit_vars, tap_vars>>

NewExchange(kind, a, p) ==
    /\ m_prev' = m_last
    /\ m_last' = [kind |-> kind, a |-> a, p |-> p, outcome |-> "pending"]
    /\ m_reqs' = m_reqs + 1
    /\ m_chunks' = 0
    /\ m_before' = master
    /\ m_rx' = << >>
    /\ UNCHANGED <<m_result, m_enables>>

\* Master::write_parameter
MasterWriteParameter ==
    /\ can_borrow_mut(handles)
    /\ m_reqs < MaxReq
    /\ \E a \in MAddrs, p \in {1234}, v \in {V56} :
          LET r == write_parameter(master, a, p, v)
          IN  /\ MasterStep("write_parameter", r[1],
                            handles \cup {[id |-> m_reqs, h |-> r[2]]})
              /\ NewExchange("write", a, p)

\* Master::read_parameter
MasterReadParameter ==
    /\ can_borrow_mut(handles)
    /\ m_reqs < MaxReq
    /\ \E a \in MAddrs, p \in MParams :
          LET r == read_parameter(master, a, p)
          IN  /\ MasterStep("read_parameter", r[1],
                            handles \cup {[id |-> m_reqs, h |-> r[2]]})
              /\ NewExchange("read", a, p)

\* Master::read_again_enable
MasterReadAgainEnable ==
    /\ can_borrow_mut(handles)
    /\ m_enables < MaxEnable
    /\ \E a \in MAddrs, flag \in BOOLEAN :
          /\ get_node_capabilities(master, a) # flag
          /\ MasterStep("read_again_enable", read_again_enable(master, a, flag), handles)
    /\ m_enables' = m_enables + 1
    /\ UNCHANGED <<m_last, m_prev, m_result, m_reqs, m_chunks, m_before, m_rx>>

\* SendData::data_sent
MasterDataSent ==
    /\ \E e \in handles :
          /\ e.h.phase = "SendData"
          /\ MasterStep("data_sent", master,
                        (handles \ {e}) \cup {[e EXCEPT !.h = data_sent(e.h)]})
    /\ UNCHANGED <<m_last, m_prev, m_result, m_reqs, m_chunks, m_before, m_rx, m_enables>>

\* the caller drops a SendData or a receiver (timeout, I/O error)
MasterDrop ==
    /\ \E e \in handles :
          /\ MasterStep("drop", master, handles \ {e})
          /\ m_last' = IF e.id = m_reqs - 1
                       THEN [m_last EXCEPT !.outcome = "dropped"] ELSE m_last
    /\ UNCHANGED <<m_prev, m_result, m_reqs, m_chunks, m_before, m_rx, m_enables>>

Received(e, r) ==
    /\ m_chunks' = m_chunks + 1
    /\ IF r[1] = "Done"
       THEN /\ MasterStep("receive_data", r[3], handles \ {e})
            /\ m_result' = r[2]
            /\ m_last' = IF e.id = m_reqs - 1
                         THEN [m_last EXCEPT !.outcome = r[2].r] ELSE m_last
       ELSE /\ MasterStep("receive_data", r[3],
                          (handles \ {e}) \cup {[e EXCEPT !.h = r[4]]})
            /\ UNCHANGED <<m_result, m_last>>
    /\ UNCHANGED <<m_prev, m_reqs, m_before, m_enables>>

\* ReceiveWriteResponse::receive_data
MasterReceiveWrite ==
    /\ m_chunks < MaxChunks
    /\ \E e \in handles, data \in ResponseInputs :
          /\ e.h.phase = "Receiver"
          /\ e.h.kind = "write"
          /\ Received(e, ReceiveWriteResponse_receive_data(master, e.h, data))
          /\ m_rx' = m_rx \o data

\* ReceiveReadResponse::receive_data
MasterReceiveRead ==
    /\ m_chunks < MaxChunks
    /\ \E e \in handles, data \in ResponseInputs :
          /\ e.h.phase = "Receiver"
          /\ e.h.kind = "read"
          /\ Received(e, ReceiveReadResponse_receive_data(master, e.h, data))
          /\ m_rx' = m_rx \o data

MasterNext ==
    \/ MasterWriteParameter
    \/ MasterReadParameter
    \/ MasterReadAgainEnable
    \/ MasterDataSent
    \/ MasterDrop
    \/ MasterReceiveWrite
    \/ MasterReceiveRead

MasterSpec == MasterInit /\ [][MasterNext]_vars

\* ------------------------------------------------------------------------
\* Encoding then parsing

CodecAddrs == {0, 9, 10, 43, 99}

CodecParams == {0, 9, 1234, 9999}

\* values of both formats, with the limits of their ranges
CodecValues ==
    {ValueNew(n)[1] : n \in {0 - 99999, 0 - 10000, 0 - 9999, 0 - 1, 0, 4, 56,
                             9999, 99999, 100000, 999999}}
    \cup {[val |-> n, fmt |-> "Wide"] : n \in {0 - 5, 0, 5, 99999}}

CodecInit ==
    /\ c_op = "input"
    /\ c_in \in [a : CodecAddrs, p : CodecParams, v : CodecValues]
    /\ c_frame = << >>
    /\ c_out = << >>
    /\ MasterIdle
    /\ NodeIdle
    /\ BusIdle
    /\ UnitsIdle

\* Master::write_parameter, its bytes given to node::parse_command
CodecWriteCommand ==
    /\ c_op = "input"
    /\ \E f \in {write_parameter(master_new, c_in.a, c_in.p, c_in.v)[2].data} :
          /\ c_frame' = f
          /\ c_out' = parse_command(f)
    /\ c_op' = "write_command"
    /\ UNCHANGED <<c_in, node_vars, master_vars, bus_vars, unit_vars, tap_vars>>

\* ReadParam::send_reply_ok and SendData::send_data, the bytes given to
\* master::parse_read_response
CodecReadResponse ==
    /\ c_op = "input"
    /\ \E f \in {send_data(send_reply_ok(
                     ReadParam_from_state(node_new(c_in.a), c_in.a, c_in.p), c_in.v))[1]} :
          /\ c_frame' = f
          /\ c_out' = parse_read_response(f)
    /\ c_op' = "read_response"
    /\ UNCHANGED <<c_in, node_vars, master_vars, bus_vars, unit_vars, tap_vars>>

\* node::parse_command given the first k bytes of a read or write command
CodecShortRead ==
    /\ c_op = "input"
    /\ \E f \in {read_parameter_data(c_in.a, c_in.p),
                  write_parameter_data(c_in.a, c_in.p, c_in.v)} :
          \E k \in 0..(Len(f) - 1) :
              /\ c_frame' = SubSeq(f, 1, k)
              /\ c_out' = parse_command(SubSeq(f, 1, k))
    /\ c_op' = "short_read"
    /\ UNCHANGED <<c_in, node_vars, master_vars, bus_vars, unit_vars, tap_vars>>

\* a read command broken off after brk bytes and then sent whole, given to
\* node::parse_command and to the receive_data of the node it addresses:
\* <<the parser's result, the node>>
CodecOverlappingCommands ==
    /\ c_op = "input"
    /\ \E f \in {read_parameter_data(c_in.a, c_in.p)} :
          \E brk \in 1..(Len(f) - 1) :
              \E buf \in {SubSeq(f, 1, brk) \o f} :
                  /\ c_frame' = buf
                  /\ c_out' = <<parse_command(buf),
                                receive_data(node_new(c_in.a), buf)>>
    /\ c_op' = "overlapping_commands"
    /\ UNCHANGED <<c_in, node_vars, master_vars, bus_vars, unit_vars, tap_vars>>

\* bytes on both sides of 0x20 and of 0x7F
BccBytes == {1, 31, 32, 127, 128, 255}

RECURSIVE SeqsUpTo(_, _)
\* the sequences over S of length at most n
SeqsUpTo(S, n) ==
    IF n = 0 THEN {<< >>}
    ELSE The({shorter \cup {Append(q, b) : q \in shorter, b \in S}
              : shorter \in {SeqsUpTo(S, n - 1)}})

\* bcc applied to a byte sequence
CodecBcc ==
    /\ c_op = "input"
    /\ \E data \in SeqsUpTo(BccBytes, MaxBccLen) :
          /\ c_frame' = data
          /\ c_out' = bcc(data)
    /\ c_op' = "bcc"
    /\ UNCHANGED <<c_in, node_vars, master_vars, bus_vars, unit_vars, tap_vars>>

\* integers of every width and sign in the range of Value, with its limits
ValueInts ==
    ((0 - 20)..20)
    \cup {0 - 99999, 0 - 99998, 0 - 10001, 0 - 10000, 0 - 9999, 0 - 9998, 0 - 1000,
          0 - 999, 0 - 100, 0 - 99, 99, 100, 999, 1000, 9999, 10000, 99999, 100000,
          123456, 999998, 999999}

\* test_valid_values: Value::new(n), to_bytes, and the bytes parsed as a Value
\* and as an i32
CodecValue ==
    /\ c_op = "input"
    /\ \E n \in ValueInts :
          \E v \in {ValueNew(n)} :
              \E b \in {IF v = None THEN << >> ELSE ValueToBytes(v[1])} :
                  /\ c_frame' = b
                  /\ c_out' = [n |-> n, new |-> v, value |-> ValueFromBytes(b),
                                int |-> ParseI32(b)]
    /\ c_op' = "value"
    /\ UNCHANGED <<c_in, node_vars, master_vars, bus_vars, unit_vars, tap_vars>>

\* the ASCII digits of a sequence of decimal digits
Digits(ds) == [i \in 1..Len(ds) |-> 48 + ds[i]]

\* value fields as x328_value takes them off the wire: one to six sign or
\* digit bytes, signed and unsigned, padded and not, of every width up to
\* six, and three that are no number
WireFields ==
    {Digits(<<0>>), Digits(<<5>>), <<43>> \o Digits(<<5>>), <<45>> \o Digits(<<5>>),
     <<45>> \o Digits(<<0>>), Digits(<<0, 0, 5>>),
     Digits(<<9, 9, 9, 9, 9>>), <<45>> \o Digits(<<9, 9, 9, 9>>),
     <<43>> \o Digits(<<9, 9, 9, 9, 9>>), <<45>> \o Digits(<<9, 9, 9, 9, 9>>),
     <<43>> \o Digits(<<0, 0, 0, 0, 5>>), <<45>> \o Digits(<<0, 0, 0, 0, 5>>),
     Digits(<<0, 0, 0, 0, 0, 5>>), Digits(<<0, 9, 9, 9, 9, 9>>),
     Digits(<<1, 0, 0, 0, 0, 0>>), Digits(<<1, 2, 3, 4, 5, 6>>),
     Digits(<<9, 9, 9, 9, 9, 9>>),
     <<43>>, <<43, 45>> \o Digits(<<5>>), Digits(<<5>>) \o <<45>>}

\* a value field converted as x328_value converts it (TryFrom<&[u8]>), the
\* Value given to to_bytes, and those bytes converted again
CodecReencode ==
    /\ c_op = "input"
    /\ \E s \in WireFields :
          \E v \in {ValueFromBytes(s)} :
              \E b \in {IF v = None THEN << >> ELSE ValueToBytes(v[1])} :
                  /\ c_frame' = s
                  /\ c_out' = [value |-> v, bytes |-> b,
                                again |-> IF v = None \/ b = Panic THEN None
                                          ELSE ValueFromBytes(b)]
    /\ c_op' = "reencode"
    /\ UNCHANGED <<c_in, node_vars, master_vars, bus_vars, unit_vars, tap_vars>>

CodecNext ==
    \/ CodecBcc
    \/ CodecValue
    \/ CodecReencode
    \/ CodecWriteCommand
    \/ CodecReadResponse
    \/ CodecShortRead
    \/ CodecOverlappingCommands

CodecSpec == CodecInit /\ [][CodecNext]_vars

\* ------------------------------------------------------------------------
\* A Buffer and its operations, applied in any order

\* the BUF_SIZE of the Buffer under test
BufSize == 3

\* bytes written: two ASCII letters and one byte above 0x7F
BufBytes == {97, 98, 200}

BufferInit ==
    /\ b_buf = buffer_new(BufSize)
    /\ b_op = "new"
    /\ b_in = << >>
    /\ b_pre = buffer_new(BufSize)
    /\ MasterIdle
    /\ NodeIdle
    /\ CodecIdle
    /\ BusIdle
    /\ ScannerIdle
    /\ TapIdle
    /\ MultiIdle
    /\ tap = FALSE

BufferStep(op, bytes, b2) ==
    /\ b_buf' = b2
    /\ b_op' = op
    /\ b_in' = bytes
    /\ b_pre' = b_buf
    /\ UNCHANGED <<node_vars, master_vars, codec_vars, bus_vars, scanner_vars, tap_vars>>
    /\ UNCHANGED multi_vars

BufferWrite ==
    \E bytes \in SeqsUpTo(BufBytes, BufSize + 1) :
        BufferStep("write", bytes, buffer_write(b_buf, bytes))

BufferPush ==
    \E byte \in BufBytes : BufferStep("push", <<byte>>, buffer_push(b_buf, byte))

\* consume asserts len <= self.len()
BufferConsume ==
    \E len \in 1..buffer_len(b_buf) :
        BufferStep("consume", << >>, buffer_consume(b_buf, len))

BufferClear == BufferStep("clear", << >>, buffer_clear(b_buf))

BufferGetRefAndClear ==
    BufferStep("get_ref_and_clear", << >>, buffer_get_ref_and_clear(b_buf)[2])

BufferNext ==
    \/ BufferWrite
    \/ BufferPush
    \/ BufferConsume
    \/ BufferClear
    \/ BufferGetRefAndClear

BufferSpec == BufferInit /\ [][BufferNext]_vars

\* ------------------------------------------------------------------------
\* A Scanner given controller bytes and node bytes in any order

\* calls on the Scanner in one run
MaxScanCalls == 3

ScanAddr == 43

\* parameters of the commands shown to the scanner, both ends of the range
\* among them
ScanParams == {0, 1234, 9999}

\* what is read off the controller channel: whole commands, the short forms
\* and the start of a command
ScanCtrlInputs ==
    {read_parameter_data(ScanAddr, p) : p \in ScanParams}
    \cup {write_parameter_data(ScanAddr, 1234, V56)}
    \cup ShortForms
    \cup {SliceTo(read_parameter_data(ScanAddr, 1234), 5)}

\* what is read off the node channel: read replies, the one byte replies and
\* the start of a read reply
ScanNodeInputs ==
    {ReplyFrame(p, V4) : p \in ScanParams}
    \cup {<<ACK>>, <<NAK>>, <<EOT>>}
    \cup {SliceTo(ReplyFrame(1234, V4), 5)}

ScannerInit ==
    /\ ScannerIdle
    /\ BufferIdle
    /\ TapIdle
    /\ MultiIdle
    /\ tap = FALSE
    /\ MasterIdle
    /\ NodeIdle
    /\ CodecIdle
    /\ BusIdle

ScannerStep(op, data, r) ==
    /\ scanner' = r[3]
    /\ s_op' = op
    /\ s_in' = data
    /\ s_out' = <<r[1], r[2]>>
    /\ s_pre' = [scanner |-> scanner, op |-> s_op, in |-> s_in, out |-> s_out,
                 before |-> s_pre.out]
    /\ s_calls' = s_calls + 1
    /\ UNCHANGED <<node_vars, master_vars, codec_vars, bus_vars, buffer_vars, tap_vars>>
    /\ UNCHANGED multi_vars

ScannerRecvFromCtrl ==
    /\ s_calls < MaxScanCalls
    /\ \E data \in ScanCtrlInputs :
          \E r \in {recv_from_ctrl(scanner, data)} : ScannerStep("recv_from_ctrl", data, r)

ScannerRecvFromNode ==
    /\ s_calls < MaxScanCalls
    /\ \E data \in ScanNodeInputs :
          \E r \in {recv_from_node(scanner, data)} : ScannerStep("recv_from_node", data, r)

ScannerNext ==
    \/ ScannerRecvFromCtrl
    \/ ScannerRecvFromNode

ScannerSpec == ScannerInit /\ [][ScannerNext]_vars

\* ------------------------------------------------------------------------
\* One controller and one node on a loss-free bus.  Each side runs its main
\* loop; bytes written by one side reach the other in order, one at a time
\* or all that are in flight.

BusAddr == 43

BusInit ==
    /\ MasterIdle
    /\ node \in {node_new(0), node_new(BusAddr)}
    /\ n_op = "new"
    /\ n_in = << >>
    /\ n_arg = NoValue
    /\ n_out = << >>
    /\ n_answered = None
    /\ n_pre = [node |-> node_new(0), op |-> "none", in |-> << >>, answered |-> None]
    /\ n_recvs = 0
    /\ CodecIdle
    /\ BusIdle
    /\ BufferIdle
    /\ ScannerIdle
    /\ TapIdle
    /\ MultiIdle
    /\ tap = FALSE

BusNodeStep(op, n2) ==
    /\ node' = n2
    /\ n_op' = op
    /\ UNCHANGED <<n_in, n_arg, n_out, n_answered, n_pre, n_recvs>>
    /\ UNCHANGED <<master_vars, codec_vars, unit_vars>>
    /\ UNCHANGED <<tap, sq_c, issued, s_buf, s_phase, s_events>>

BusMasterStep(op, m2, hs2) ==
    /\ master' = m2
    /\ handles' = hs2
    /\ m_op' = op
    /\ UNCHANGED <<m_prev, m_pre, m_chunks, m_before, m_rx, m_enables>>
    /\ UNCHANGED <<node_vars, codec_vars, unit_vars>>
    /\ UNCHANGED <<tap, sq_n, s_buf, s_phase, s_events>>

BusNewExchange(kind, p, v, data) ==
    /\ m_last' = [kind |-> kind, a |-> BusAddr, p |-> p, outcome |-> "pending"]
    /\ m_reqs' = m_reqs + 1
    /\ bus_choice' = [c |-> "none", v |-> NoValue]
    /\ issued' = IF tap
                 THEN Append(issued, [kind |-> kind, a |-> BusAddr, p |-> p, v |-> v,
                                      short |-> Len(data) = 1])
                 ELSE issued
    /\ UNCHANGED <<m_result, bus_cn, bus_nc, sq_c>>

\* the controller's caller asks for a write
BusWriteParameter ==
    /\ can_borrow_mut(handles)
    /\ m_reqs < MaxExchanges
    /\ \E v \in {V56, VWide} :
          \E r \in {write_parameter(master, BusAddr, 1234, v)} :
              /\ BusMasterStep("write_parameter", r[1], {[id |-> m_reqs, h |-> r[2]]})
              /\ BusNewExchange("write", 1234, v, r[2].data)

\* the controller's caller asks for a read
BusReadParameter ==
    /\ can_borrow_mut(handles)
    /\ m_reqs < MaxExchanges
    /\ \E p \in MParams :
          \E r \in {read_parameter(master, BusAddr, p)} :
              /\ BusMasterStep("read_parameter", r[1], {[id |-> m_reqs, h |-> r[2]]})
              /\ BusNewExchange("read", p, NoValue, r[2].data)

\* the controller's caller declares that the node supports the short forms
BusReadAgainEnable ==
    /\ can_borrow_mut(handles)
    /\ ~get_node_capabilities(master, BusAddr)
    /\ BusMasterStep("read_again_enable", read_again_enable(master, BusAddr, TRUE), handles)
    /\ UNCHANGED <<m_last, m_result, m_reqs, bus_vars, sq_c, issued>>

\* write_to: the request goes on the wire, then data_sent
BusControllerSend ==
    /\ \E e \in handles :
          /\ e.h.phase = "SendData"
          /\ bus_cn' = bus_cn \o e.h.data
          /\ sq_c' = IF tap THEN sq_c \o e.h.data ELSE sq_c
          /\ BusMasterStep("data_sent", master,
                           (handles \ {e}) \cup {[e EXCEPT !.h = data_sent(e.h)]})
    /\ UNCHANGED <<m_last, m_result, m_reqs, bus_nc, bus_choice, issued>>

\* the node reads bytes off the wire and gives them to receive_data
BusNodeReceive ==
    /\ state(node) = "ReceiveData"
    /\ bus_cn # << >>
    /\ \E k \in {1, Len(bus_cn)} :
          /\ BusNodeStep("receive_data", receive_data(node, SubSeq(bus_cn, 1, k)))
          /\ bus_cn' = SubSeq(bus_cn, k + 1, Len(bus_cn))
    /\ UNCHANGED <<bus_nc, bus_choice, sq_n>>

BusNodeReply(op, n2, v) ==
    /\ BusNodeStep(op, n2)
    /\ bus_choice' = [c |-> op, v |-> v]
    /\ UNCHANGED <<bus_cn, bus_nc, sq_n>>

BusNodeSendReplyOk ==
    /\ node.state.kind = "Read"
    /\ \E v \in ReplyValues : BusNodeReply("reply_ok", send_reply_ok(node, v), v)

BusNodeSendInvalidParameter ==
    /\ node.state.kind = "Read"
    /\ BusNodeReply("invalid_parameter", send_invalid_parameter(node), NoValue)

BusNodeSendReadFailed ==
    /\ node.state.kind = "Read"
    /\ BusNodeReply("read_failed", send_read_failed(node), NoValue)

BusNodeWriteOk ==
    /\ node.state.kind = "Write"
    /\ BusNodeReply("write_ok", write_ok(node), NoValue)

BusNodeWriteError ==
    /\ node.state.kind = "Write"
    /\ BusNodeReply("write_error", write_error(node), NoValue)

\* the node writes its reply on the wire
BusNodeSendData ==
    /\ state(node) = "SendData"
    /\ \E r \in {send_data(node)} :
          /\ BusNodeStep("send_data", r[2])
          /\ bus_nc' = bus_nc \o r[1]
          /\ sq_n' = IF tap THEN sq_n \o r[1] ELSE sq_n
    /\ UNCHANGED <<bus_cn, bus_choice>>

BusReceived(e, r) ==
    /\ IF r[1] = "Done"
       THEN /\ BusMasterStep("receive_data", r[3], handles \ {e})
            /\ m_result' = r[2]
            /\ m_last' = [m_last EXCEPT !.outcome = r[2].r]
       ELSE /\ BusMasterStep("receive_data", r[3],
                             (handles \ {e}) \cup {[e EXCEPT !.h = r[4]]})
            /\ UNCHANGED <<m_result, m_last>>
    /\ UNCHANGED <<m_reqs, bus_cn, bus_choice, sq_c, issued>>

\* receive_from: the controller reads bytes off the wire and gives them to
\* the receiver of its request
BusControllerReceive ==
    /\ bus_nc # << >>
    /\ \E e \in handles, k \in {1, Len(bus_nc)} :
          /\ e.h.phase = "Receiver"
          /\ bus_nc' = SubSeq(bus_nc, k + 1, Len(bus_nc))
          /\ \E r \in {IF e.h.kind = "write"
                        THEN ReceiveWriteResponse_receive_data(master, e.h,
                                                               SubSeq(bus_nc, 1, k))
                        ELSE ReceiveReadResponse_receive_data(master, e.h,
                                                              SubSeq(bus_nc, 1, k))} :
                BusReceived(e, r)

BusNext ==
    \/ BusWriteParameter
    \/ BusReadParameter
    \/ BusReadAgainEnable
    \/ BusControllerSend
    \/ BusNodeReceive
    \/ BusNodeSendReplyOk
    \/ BusNodeSendInvalidParameter
    \/ BusNodeSendReadFailed
    \/ BusNodeWriteOk
    \/ BusNodeWriteError
    \/ BusNodeSendData
    \/ BusControllerReceive

\* both main loops keep running: a step that can be taken is taken
BusSpec == BusInit /\ [][BusNext]_vars /\ WF_vars(BusNext)

\* ------------------------------------------------------------------------
\* The controller and the node of the bus above, with a scanner thread that
\* has an interface of each kind on the bus: every byte written reaches its
\* queues, and each of its reads takes one byte.

ScanInit ==
    /\ MasterIdle
    /\ NodeIdle
    /\ CodecIdle
    /\ BusIdle
    /\ BufferIdle
    /\ ScannerIdle
    /\ TapIdle
    /\ MultiIdle
    /\ tap = TRUE

ScanThreadStep(r) ==
    /\ scanner' = r.scanner
    /\ s_buf' = r.buf
    /\ s_events' = r.events
    /\ s_phase' = IF r.switch THEN (IF s_phase = "ctrl" THEN "node" ELSE "ctrl")
                  ELSE s_phase
    /\ UNCHANGED <<node_vars, master_vars, codec_vars, bus_vars, buffer_vars, multi_vars>>
    /\ UNCHANGED <<s_op, s_in, s_out, s_pre, s_calls, tap, issued>>

\* the thread reads the controller's bytes (its node interface)
ScanThreadCtrl ==
    /\ tap
    /\ s_phase = "ctrl"
    /\ sq_c # << >>
    /\ sq_c' = Tail(sq_c)
    /\ \E r \in {ctrl_while(scanner, Append(s_buf, Head(sq_c)), s_events)} :
          ScanThreadStep(r)
    /\ UNCHANGED sq_n

\* the thread reads the node's bytes (its master interface)
ScanThreadNode ==
    /\ tap
    /\ s_phase = "node"
    /\ sq_n # << >>
    /\ sq_n' = Tail(sq_n)
    /\ \E r \in {node_while(scanner, Append(s_buf, Head(sq_n)), s_events)} :
          ScanThreadStep(r)
    /\ UNCHANGED sq_c

ScanNext ==
    \/ BusWriteParameter
    \/ BusReadParameter
    \/ BusReadAgainEnable
    \/ BusControllerSend
    \/ BusNodeReceive
    \/ BusNodeSendReplyOk
    \/ BusNodeSendInvalidParameter
    \/ BusNodeSendReadFailed
    \/ BusNodeWriteOk
    \/ BusNodeWriteError
    \/ BusNodeSendData
    \/ BusControllerReceive
    \/ ScanThreadCtrl
    \/ ScanThreadNode

ScanSpec == ScanInit /\ [][ScanNext]_vars

\* ------------------------------------------------------------------------
\* Several nodes with distinct non-zero addresses on one bus.  The controller
\* writes bytes; each node reads them in its own time, one byte or all that
\* are there, and answers as its caller decides.

\* writes of the controller in one run
MaxEmits == 3

\* what the controller writes: reads for either node, a write, a short form
\* and the start of a command
MultiPieces ==
    {read_parameter_data(a, 1234) : a \in MultiAddrs}
    \cup {write_parameter_data(10, 1234, V56), <<ACK>>, <<EOT, 49>>}

MultiInit ==
    /\ MultiIdle
    /\ MasterIdle
    /\ NodeIdle
    /\ CodecIdle
    /\ BusIdle
    /\ BufferIdle
    /\ ScannerIdle
    /\ TapIdle
    /\ tap = FALSE

MultiOthersUnchanged ==
    UNCHANGED <<node_vars, master_vars, codec_vars, bus_vars, buffer_vars, scanner_vars,
                tap_vars>>

MultiNodeStep(a, n2) ==
    /\ mn_nodes' = [mn_nodes EXCEPT ![a] = n2]
    /\ UNCHANGED <<mn_stream, mn_emits>>
    /\ MultiOthersUnchanged

\* the controller writes to the bus
MultiEmit ==
    /\ mn_emits < MaxEmits
    /\ \E piece \in MultiPieces : mn_stream' = mn_stream \o piece
    /\ mn_emits' = mn_emits + 1
    /\ UNCHANGED <<mn_nodes, mn_pos>>
    /\ MultiOthersUnchanged

\* a node reads from the bus and gives the bytes to receive_data
MultiReceive ==
    \E a \in MultiAddrs :
        /\ state(mn_nodes[a]) = "ReceiveData"
        /\ mn_pos[a] < Len(mn_stream)
        /\ \E k \in {1, Len(mn_stream) - mn_pos[a]} :
              /\ MultiNodeStep(a, receive_data(mn_nodes[a],
                                   SubSeq(mn_stream, mn_pos[a] + 1, mn_pos[a] + k)))
              /\ mn_pos' = [mn_pos EXCEPT ![a] = @ + k]

MultiReply(a, n2) ==
    /\ MultiNodeStep(a, n2)
    /\ UNCHANGED mn_pos

MultiSendReplyOk ==
    \E a \in MultiAddrs :
        /\ mn_nodes[a].state.kind = "Read"
        /\ MultiReply(a, send_reply_ok(mn_nodes[a], V4))

MultiSendInvalidParameter ==
    \E a \in MultiAddrs :
        /\ mn_nodes[a].state.kind = "Read"
        /\ MultiReply(a, send_invalid_parameter(mn_nodes[a]))

MultiWriteOk ==
    \E a \in MultiAddrs :
        /\ mn_nodes[a].state.kind = "Write"
        /\ MultiReply(a, write_ok(mn_nodes[a]))

MultiSendData ==
    \E a \in MultiAddrs :
        /\ state(mn_nodes[a]) = "SendData"
        /\ MultiReply(a, send_data(mn_nodes[a])[2])

MultiNext ==
    \/ MultiEmit
    \/ MultiReceive
    \/ MultiSendReplyOk
    \/ MultiSendInvalidParameter
    \/ MultiWriteOk
    \/ MultiSendData

MultiSpec == MultiInit /\ [][MultiNext]_vars

\* ------------------------------------------------------------------------
\* Properties of the controller

\* C1: the controller has at most one outstanding request: a request handle
\* is created only while no handle lives, and a handle ends only by being
\* dropped or by its receive_data returning Done.
C1_OneOutstandingRequest ==
    /\ Cardinality(handles) <= 1
    /\ m_op \in {"write_parameter", "read_parameter"} => m_pre.handles = {}
    /\ Cardinality(handles) < Cardinality(m_pre.handles)
          => m_op \in {"drop", "receive_data"}

\* a second request, created after the first one returned Done
C1_Witness ==
    /\ m_reqs = 2
    /\ m_op \in {"write_parameter", "read_parameter"}
    /\ Cardinality(handles) = 1
    /\ m_prev.outcome = "Ok"

\* the previous exchange was a successful read of the requested address whose
\* parameter is the requested one or next to it
PreviousReadAdjacent(h) ==
    /\ m_prev.kind = "read"
    /\ m_prev.outcome = "Ok"
    /\ m_prev.a = h.address
    /\ h.expected_param - m_prev.p \in {0 - 1, 0, 1}

\* the single byte that asks for the parameter at distance d after a read
ShortFormByte(d) == IF d = 1 THEN ACK ELSE IF d = 0 THEN NAK ELSE BS

\* EOT AAAA PPPP ENQ written out digit by digit
LongFormRead(a, p) ==
    <<EOT, 48 + (a \div 10), 48 + (a \div 10), 48 + (a % 10), 48 + (a % 10),
      48 + (p \div 1000), 48 + ((p \div 100) % 10), 48 + ((p \div 10) % 10),
      48 + (p % 10), ENQ>>

\* the request that read_parameter just created is in the short form exactly
\* when `short` holds, and else in the long form
ReadRequestForm(h, short) ==
    IF short
    THEN h.data = <<ShortFormByte(h.expected_param - m_prev.p)>>
    ELSE h.data = LongFormRead(h.address, h.expected_param)

\* C10 as stated: a read request is the short form byte if and only if the
\* previous exchange was a successful read of (A, P) at the same address and
\* P' - P is -1, 0 or 1; otherwise it is the long form EOT AAAA PPPP ENQ.
C10_ShortFormIffAdjacent ==
    m_op = "read_parameter" =>
        \A e \in handles : ReadRequestForm(e.h, PreviousReadAdjacent(e.h))

\* C10, amended: the short form is used if and only if, in addition,
\* read-again has been enabled for the address with read_again_enable.
C10_ShortFormIffAdjacentAndEnabled ==
    m_op = "read_parameter" =>
        \A e \in handles :
            ReadRequestForm(e.h, PreviousReadAdjacent(e.h)
                                 /\ e.h.address \in m_pre.master.nodes)

\* a read of the next parameter sent as a single ACK
C10_Witness ==
    /\ m_op = "read_parameter"
    /\ \E e \in handles :
          /\ e.h.data = <<ACK>>
          /\ e.h.expected_param = m_prev.p + 1
          /\ m_prev.outcome = "Ok"

\* C11 as stated: read_parameter never uses the short form: it always emits
\* the 10-byte long form, and the prior read-again context is cleared.
C11_ReadNeverShortForm ==
    m_op = "read_parameter" =>
        /\ master.read_again = None
        /\ \A e \in handles :
              e.h.data = LongFormRead(e.h.address, e.h.expected_param)

\* the request of read_parameter is the short form byte that the context
\* held before the call selects for the requested parameter
ShortFormFromContext(h) ==
    /\ m_pre.master.read_again # None
    /\ m_pre.master.read_again[1] = h.address
    /\ h.address \in m_pre.master.nodes
    /\ h.expected_param - m_pre.master.read_again[2] \in {0 - 1, 0, 1}
    /\ h.data = <<ShortFormByte(h.expected_param - m_pre.master.read_again[2])>>

\* C11, amended: read_parameter clears the prior read-again context in every
\* controller state and emits the 10-byte long form, except that it emits
\* the one-byte short form when read-again is enabled for the address and
\* the context holds that address with the same or an adjacent parameter.
C11_ReadLongFormUnlessReadAgain ==
    m_op = "read_parameter" =>
        /\ master.read_again = None
        /\ \A e \in handles :
              /\ \/ e.h.data = LongFormRead(e.h.address, e.h.expected_param)
                 \/ ShortFormFromContext(e.h)
              /\ e.h.address \notin m_pre.master.nodes
                    => e.h.data = LongFormRead(e.h.address, e.h.expected_param)

\* read_parameter found a live context, cleared it and emitted the long form
C11_Witness ==
    /\ m_op = "read_parameter"
    /\ m_pre.master.read_again # None
    /\ master.read_again = None
    /\ \E e \in handles :
          e.h.data = LongFormRead(e.h.address, e.h.expected_param)

\* C12: the controller's read-again context holds (A, P) only when the most
\* recently completed exchange was a read of (A, P) that returned Ok; it is
\* set only by that completion, and every write request, every new read
\* request and every read that ends in an error leaves it empty.
C12_ControllerContext ==
    /\ master.read_again # None =>
          /\ handles = {}
          /\ m_last.kind = "read"
          /\ m_last.outcome = "Ok"
          /\ master.read_again = <<m_last.a, m_last.p>>
    /\ m_op \in {"write_parameter", "read_parameter"} => master.read_again = None
    /\ (m_op = "receive_data" /\ m_last.outcome # "Ok") => master.read_again = None
    /\ (master.read_again # None /\ master.read_again # m_pre.master.read_again)
          => m_op = "receive_data"

\* a read that returned Ok has just established the context
C12_Witness ==
    /\ m_op = "receive_data"
    /\ m_last.kind = "read"
    /\ m_last.outcome = "Ok"
    /\ m_pre.master.read_again = None
    /\ master.read_again = <<m_last.a, m_last.p>>

\* the handle of the last request was dropped before data_sent
DroppedBeforeSent ==
    /\ m_op = "drop"
    /\ m_pre.op \in {"write_parameter", "read_parameter"}

\* C13 as stated: creating a request and dropping its handle before
\* data_sent leaves the controller idle in the state, read-again context
\* included, that it had before the request was created.
C13_DropRestoresState ==
    DroppedBeforeSent => handles = {} /\ master = m_before

\* C13, amended: creating a request and dropping its handle before data_sent
\* leaves the controller idle with its node capabilities as before, but the
\* read-again context is empty afterwards: creating the request cleared it.
C13_DropLeavesContextCleared ==
    DroppedBeforeSent =>
        /\ handles = {}
        /\ master.nodes = m_before.nodes
        /\ master.read_again = None

\* a request created with a live context was dropped unsent
C13_Witness ==
    /\ DroppedBeforeSent
    /\ m_before.read_again # None
    /\ handles = {}
    /\ master.read_again = None

\* the last operation was a receive_data of an exchange of this kind
ReceivedIn(kind) ==
    /\ m_op = "receive_data"
    /\ m_last.kind = kind

\* the last receive_data returned NeedData: the exchange goes on
StillReceiving ==
    /\ handles # {}
    /\ m_last.outcome = "pending"

\* C14: in a write exchange a lone ACK gives Ok(()), a lone NAK gives
\* CommandFailed, a lone EOT gives InvalidParameter and any other input
\* gives ProtocolError.
C14_WriteResponseMapping ==
    ReceivedIn("write") =>
        /\ m_rx = <<ACK>> => m_last.outcome = "Ok"
        /\ m_rx = <<NAK>> => m_last.outcome = "CommandFailed"
        /\ m_rx = <<EOT>> => m_last.outcome = "InvalidParameter"
        /\ m_rx \notin {<<ACK>>, <<NAK>>, <<EOT>>} => m_last.outcome = "ProtocolError"

\* every well-formed reply frame of the inputs, with its parameter
WellFormedReplies == {<<q, ReplyFrame(q, V4)>> : q \in MParams}

\* the non-empty strict prefixes of the well-formed reply frames
ReplyPrefixes ==
    UNION {{SubSeq(qf[2], 1, n) : n \in 1..(Len(qf[2]) - 1)} : qf \in WellFormedReplies}

\* the well-formed reply frames with another byte in the place of the BCC
RepliesWithWrongBcc ==
    UNION {{Subst(qf[2], Len(qf[2]), b) : b \in (0..127) \ {qf[2][Len(qf[2])]}}
           : qf \in WellFormedReplies}

\* the well-formed reply frames followed by one more byte
RepliesWithTrailingByte ==
    {qf[2] \o <<b>> : qf \in WellFormedReplies, b \in 0..127}

\* C15: in a read exchange expecting P, a strict prefix of a well-formed
\* reply frame gives NeedData, a lone EOT gives InvalidParameter, a
\* well-formed frame for P gives Ok(value), and a frame for another
\* parameter, a frame with a wrong BCC and a frame followed by further
\* bytes give ProtocolError.
C15_ReadResponseMapping ==
    ReceivedIn("read") =>
        /\ m_rx \in ReplyPrefixes => StillReceiving
        /\ m_rx = <<EOT>> => m_last.outcome = "InvalidParameter"
        /\ <<m_last.p, m_rx>> \in WellFormedReplies
              => m_last.outcome = "Ok" /\ m_result.v.val = 4
        /\ (\E q \in MParams \ {m_last.p} : <<q, m_rx>> \in WellFormedReplies)
              => m_last.outcome = "ProtocolError"
        /\ m_rx \in RepliesWithWrongBcc => m_last.outcome = "ProtocolError"
        /\ m_rx \in RepliesWithTrailingByte => m_last.outcome = "ProtocolError"

\* the reply for the expected parameter arrived in two pieces and gave Ok
C15_Witness ==
    /\ ReceivedIn("read")
    /\ m_chunks = 2
    /\ m_rx = ReplyFrame(m_last.p, V4)
    /\ m_last.outcome = "Ok"
    /\ m_result.v.val = 4

\* the outcome that the bytes rx alone give to an exchange
OutcomeOf(kind, p, rx) ==
    IF kind = "write"
    THEN (IF parse_write_response(rx).t = "WriteOk" THEN "Ok"
          ELSE IF parse_write_response(rx).t \in {"WriteFailed", "InvalidParameter"}
          THEN "CommandFailed"
          ELSE "ProtocolError")
    ELSE (IF parse_read_response(rx).t = "NeedData" THEN "pending"
          ELSE IF parse_read_response(rx).t = "ReadOk" /\ parse_read_response(rx).p = p
          THEN "Ok"
          ELSE IF parse_read_response(rx).t = "InvalidParameter" THEN "InvalidParameter"
          ELSE "ProtocolError")

\* C16: after an exchange that ended in ProtocolError or was dropped the
\* controller is idle, and the outcome of the next exchange is the one that
\* the bytes received during that next exchange give.
C16_FailedExchangeLeavesNoBytes ==
    /\ (m_op \in {"receive_data", "drop"}
        /\ m_last.outcome \in {"ProtocolError", "dropped"}) => handles = {}
    /\ (m_op = "receive_data" /\ m_prev.outcome \in {"ProtocolError", "dropped"})
          => m_last.outcome = OutcomeOf(m_last.kind, m_last.p, m_rx)

\* an exchange that returned Ok right after one that ended in ProtocolError
C16_Witness ==
    /\ m_op = "receive_data"
    /\ m_prev.outcome = "ProtocolError"
    /\ m_last.outcome = "Ok"
    /\ handles = {}

\* the number that the decimal digits d[from..to] spell, or -1
RECURSIVE DecimalOf(_, _, _)
DecimalOf(d, from, to) ==
    IF to < from THEN 0
    ELSE IF d[to] \notin 48..57 \/ DecimalOf(d, from, to - 1) < 0 THEN 0 - 1
    ELSE 10 * DecimalOf(d, from, to - 1) + (d[to] - 48)

\* d is a write frame for address a, parameter p and the value field vf
IsWriteFrame(d, a, p, vf) ==
    /\ Len(d) = 12 + Len(vf)
    /\ d[1] = EOT
    /\ d[2] = d[3] /\ d[4] = d[5]
    /\ DecimalOf(<<d[2], d[4]>>, 1, 2) = a
    /\ d[6] = STX
    /\ DecimalOf(d, 7, 10) = p
    /\ SubSeq(d, 11, Len(d) - 2) = vf
    /\ d[Len(d) - 1] = ETX
    /\ d[Len(d)] = bcc(SubSeq(d, 7, Len(d) - 1))

\* C18: the request made by write_parameter(a, p, v) holds EOT, the doubled
\* address digits, STX, four parameter digits, the value field, ETX and a
\* BCC over parameter, value and ETX; for 43/1234/56 it is
\* 04 34 34 33 33 02 31 32 33 34 2B 35 36 03 2F.
C18_WriteFrame ==
    m_op = "write_parameter" =>
        \A e \in handles :
            /\ e.h.phase = "SendData"
            /\ IsWriteFrame(e.h.data, m_last.a, m_last.p, <<43, 53, 54>>)
            /\ (m_last.a = 43 /\ m_last.p = 1234) =>
                  e.h.data = <<4, 52, 52, 51, 51, 2, 49, 50, 51, 52, 43, 53, 54, 3, 47>>

\* the write of 56 to parameter 1234 of node 43 was just requested
C18_Witness ==
    /\ m_op = "write_parameter"
    /\ m_last.a = 43 /\ m_last.p = 1234
    /\ \E e \in handles :
          e.h.data = <<4, 52, 52, 51, 51, 2, 49, 50, 51, 52, 43, 53, 54, 3, 47>>

\* ------------------------------------------------------------------------
\* Properties of the node

\* the last receive_data consumed bytes of the buffer
Consumed ==
    parse_command(buffer_as_ref(buffer_write(n_pre.node.buffer, n_in)))[1] > 0

\* the node is in phase SendData with exactly `bytes` to transmit
Pending(bytes) ==
    /\ state(node) = "SendData"
    /\ buffer_as_ref(node.buffer) = bytes

\* the node is in phase ReceiveData with nothing buffered and nothing emitted
Silent ==
    /\ node.state = StRecv
    /\ buffer_len(node.buffer) = 0
    /\ n_out = << >>

\* C2: the read-again context is live with (A, P) only when the last command
\* the node consumed was a read of (A, P) answered with send_reply_ok; a
\* receive_data that consumes anything leaves it cleared; only send_reply_ok
\* sets it.
C2_ReadAgainContext ==
    /\ node.read_again_param # None => node.read_again_param = n_answered
    /\ (n_op = "receive_data" /\ Consumed) => node.read_again_param = None
    /\ (node.read_again_param # None
        /\ node.read_again_param # n_pre.node.read_again_param)
          => n_op = "send_reply_ok"

\* a live context cleared by a receive_data that consumed a command
C2_Witness ==
    /\ n_op = "receive_data"
    /\ n_pre.node.read_again_param # None
    /\ n_pre.node.read_again_param = n_pre.answered
    /\ Consumed
    /\ node.read_again_param = None

\* the byte b arrived right after the reply of a send_reply_ok was sent
ShortFormAfterReply(b) ==
    /\ n_op = "receive_data"
    /\ n_in = <<b>>
    /\ n_pre.op = "send_data"
    /\ n_pre.answered # None

\* C3: after the reply to a read of (A, P) answered with send_reply_ok was
\* sent, ACK surfaces a read of (A, P+1), NAK of (A, P) and BS of (A, P-1);
\* ACK at P = 9999 and BS at P = 0 make the node send a single EOT.
C3_ShortFormsFollowReply ==
    /\ ShortFormAfterReply(ACK) =>
          IF n_pre.answered[2] < 9999
          THEN node.state = InternalState("Read", n_pre.answered[1],
                                          n_pre.answered[2] + 1, NoValue)
          ELSE Pending(<<EOT>>)
    /\ ShortFormAfterReply(NAK) =>
          node.state = InternalState("Read", n_pre.answered[1],
                                     n_pre.answered[2], NoValue)
    /\ ShortFormAfterReply(BS) =>
          IF n_pre.answered[2] > 0
          THEN node.state = InternalState("Read", n_pre.answered[1],
                                          n_pre.answered[2] - 1, NoValue)
          ELSE Pending(<<EOT>>)

\* ACK after the reply to a read of parameter 9999: a single EOT is pending
C3_Witness ==
    /\ ShortFormAfterReply(ACK)
    /\ n_pre.answered[2] = 9999
    /\ Pending(<<EOT>>)

\* C4: a short form byte that arrives at an empty buffer while no read-again
\* context is live is consumed without effect: phase ReceiveData, nothing
\* buffered, no reply, still no context.
C4_ShortFormWithoutContext ==
    (/\ n_op = "receive_data"
     /\ n_in \in ShortForms
     /\ n_pre.node.read_again_param = None
     /\ buffer_len(n_pre.node.buffer) = 0)
        => Silent /\ node.read_again_param = None

\* an ACK received by a node that has not answered any read
C4_Witness ==
    /\ n_op = "receive_data"
    /\ n_in = <<ACK>>
    /\ n_pre.node.read_again_param = None
    /\ buffer_len(n_pre.node.buffer) = 0
    /\ Silent

\* the last receive_data was given a complete read or write command for an
\* address that is not the address of this non-zero-address node
CommandForOtherNode ==
    /\ n_op = "receive_data"
    /\ node.address # 0
    /\ \E a \in CmdAddrs \ {node.address} :
          \/ \E p \in CmdParams : n_in = read_parameter_data(a, p)
          \/ \E p \in CmdParams, v \in ReplyValues :
                n_in = write_parameter_data(a, p, v)

\* C5 as stated: a command for another address yields no reply and no state
\* change; the tracking state, the read-again context included, is as before.
C5_OtherAddressChangesNothing ==
    CommandForOtherNode =>
        /\ Silent
        /\ node.read_again_param = n_pre.node.read_again_param

\* C5, amended: a command for another address yields no reply and leaves the
\* node in ReceiveData with an empty buffer, but it clears the read-again
\* context.
C5_OtherAddressClearsContext ==
    CommandForOtherNode =>
        /\ Silent
        /\ node.read_again_param = None

\* a command for another address that arrived while the context was live
C5_Witness ==
    /\ CommandForOtherNode
    /\ n_pre.node.read_again_param # None
    /\ Silent
    /\ node.read_again_param = None

\* C6: a node with address 0 accepts the commands to every address and the
\* command carries the address of the command; any other node accepts only
\* the commands to its own address.
C6_AddressZeroAcceptsAll ==
    /\ node.state.kind \in {"Read", "Write"} =>
          node.address = 0 \/ node.state.address = node.address
    /\ n_op = "receive_data" =>
          \A a \in CmdAddrs, p \in CmdParams :
              /\ n_in = read_parameter_data(a, p) =>
                    IF node.address = 0 \/ node.address = a
                    THEN node.state = InternalState("Read", a, p, NoValue)
                    ELSE node.state = StRecv
              /\ \A v \in ReplyValues :
                    n_in = write_parameter_data(a, p, v) =>
                        IF node.address = 0 \/ node.address = a
                        THEN node.state = InternalState("Write", a, p, v)
                        ELSE node.state = StRecv

\* the node with address 0 holds a write command addressed to 19
C6_Witness ==
    /\ node.address = 0
    /\ n_op = "receive_data"
    /\ node.state.kind = "Write"
    /\ node.state.address = 19

ReplyOkBytes(p, valbytes) ==
    <<STX>> \o ParameterToBytes(p) \o valbytes
    \o <<ETX, bcc(ParameterToBytes(p) \o valbytes \o <<ETX>>)>>

\* C8: each reply operation emits exactly its bytes (write_ok ACK,
\* write_error NAK, send_invalid_parameter EOT, send_read_failed NAK,
\* send_reply_ok STX PPPP V ETX BCC), and once they are sent the node is in
\* ReceiveData with nothing buffered.
C8_ReplyBytes ==
    /\ n_op = "write_ok" => Pending(<<ACK>>)
    /\ n_op = "write_error" => Pending(<<NAK>>)
    /\ n_op = "send_invalid_parameter" => Pending(<<EOT>>)
    /\ n_op = "send_read_failed" => Pending(<<NAK>>)
    /\ n_op = "send_reply_ok" =>
          Pending(ReplyOkBytes(n_pre.node.state.parameter, ValueToBytes(n_arg)))
    /\ n_op = "send_data" =>
          /\ n_out = buffer_as_ref(n_pre.node.buffer)
          /\ node.state = StRecv
          /\ buffer_len(node.buffer) = 0

\* the reply STX "1234" "+56" ETX '/' was sent
C8_Witness ==
    /\ n_op = "send_data"
    /\ n_pre.op = "send_reply_ok"
    /\ n_out = <<STX, 49, 50, 51, 52, 43, 53, 54, ETX, 47>>
    /\ node.state = StRecv

\* C9: the node works on one command at a time: it is in exactly one of the
\* phases ReceiveData, SendData and Command, input is accepted only in
\* ReceiveData, a command is held with nothing else buffered, and a reply
\* is drained only in SendData.
C9_SerialPhases ==
    /\ node.state.kind \in {"Recv", "Send", "Read", "Write"}
    /\ n_op = "receive_data" => n_pre.node.state = StRecv
    /\ n_op = "send_data" => n_pre.node.state = StSend
    /\ n_op \in {"send_reply_ok", "send_invalid_parameter", "send_read_failed"}
          => n_pre.node.state.kind = "Read"
    /\ n_op \in {"write_ok", "write_error"} => n_pre.node.state.kind = "Write"
    /\ state(node) = "Command" => buffer_len(node.buffer) = 0

\* a second command accepted after the reply to the first one was sent
C9_Witness ==
    /\ n_op = "receive_data"
    /\ n_pre.op = "send_data"
    /\ state(node) = "Command"

\* ------------------------------------------------------------------------
\* Properties of encoding then parsing

\* C19: for every valid address a, parameter p and value v, parse_command
\* applied to the frame of write_parameter(a, p, v) yields
\* WriteParameter(a, p, v) and consumes the whole frame.
C19_WriteCommandRoundTrip ==
    c_op = "write_command" =>
        /\ c_out[1] = Len(c_frame)
        /\ c_out[2].t = "WriteParameter"
        /\ c_out[2].a = c_in.a
        /\ c_out[2].p = c_in.p
        /\ c_out[2].v.val = c_in.v.val

\* a six byte value, sent to the highest address, came back whole
C19_Witness ==
    /\ c_op = "write_command"
    /\ c_in.a = 99
    /\ c_in.v = [val |-> 0 - 99999, fmt |-> "Wide"]
    /\ Len(c_frame) = 18
    /\ c_out[1] = 18
    /\ c_out[2].v.val = 0 - 99999

\* C20: for every valid parameter p and value v, parse_read_response applied
\* to the frame of send_reply_ok for (p, v) yields ReadOk with p and v.
C20_ReadResponseRoundTrip ==
    c_op = "read_response" =>
        /\ c_out.t = "ReadOk"
        /\ c_out.p = c_in.p
        /\ c_out.v.val = c_in.v.val

\* a negative value of parameter 9999 came back whole
C20_Witness ==
    /\ c_op = "read_response"
    /\ c_in.p = 9999
    /\ c_in.v.val = 0 - 1
    /\ c_out.t = "ReadOk"
    /\ c_out.p = 9999
    /\ c_out.v.val = 0 - 1

\* ------------------------------------------------------------------------
\* Properties of the bus

\* the last step ended an exchange
ExchangeDone ==
    /\ m_op = "receive_data"
    /\ handles = {}

\* the controller's result is the one that belongs to the node's choice
ResultReflectsChoice ==
    ExchangeDone =>
        /\ bus_choice.c # "none"
        /\ bus_choice.c = "write_ok" => m_last.outcome = "Ok"
        /\ bus_choice.c = "write_error" => m_last.outcome = "CommandFailed"
        /\ bus_choice.c = "reply_ok" =>
              m_last.outcome = "Ok" /\ m_result.v.val = bus_choice.v.val
        /\ bus_choice.c = "invalid_parameter" => m_last.outcome = "InvalidParameter"

\* C17: over a loss-free bus between the controller and a node addressed by
\* the command every exchange completes, and its result reflects the node's
\* choice: write_ok gives Ok, write_error gives CommandFailed, reply_ok(v)
\* gives Ok(v) and invalid_parameter gives InvalidParameter.
C17_ExchangeCompletes ==
    /\ [](ResultReflectsChoice)
    /\ (handles # {}) ~> (handles = {})

\* the second exchange, a read, returned the value the node chose and left
\* nothing on the wire
C17_Witness ==
    /\ ExchangeDone
    /\ m_reqs = 2
    /\ m_last.kind = "read"
    /\ bus_choice.c = "reply_ok"
    /\ bus_choice.v = VWide
    /\ m_last.outcome = "Ok"
    /\ m_result.v.val = VWide.val
    /\ bus_cn = << >> /\ bus_nc = << >>

\* C21: for every strict prefix of a valid read or write command, the empty
\* buffer included, parse_command returns NeedData and consumes nothing.
C21_PrefixNeedsData ==
    c_op = "short_read" => c_out = <<0, NeedData>>

\* a write command with a six byte value that lacks only its BCC
C21_Witness ==
    /\ c_op = "short_read"
    /\ Len(c_frame) = 17
    /\ c_frame[17] = ETX
    /\ c_out = <<0, NeedData>>

\* C22: when the buffer holds a non-empty strict prefix of a read command
\* followed by the whole read command, parse_command yields ReadParameter
\* for the whole command and consumes the whole buffer, and the node it
\* addresses enters ReadParameter for it.
C22_InterruptedCommandRecovers ==
    c_op = "overlapping_commands" =>
        /\ c_out[1] = <<Len(c_frame), Token("ReadParameter", c_in.a, c_in.p, NoValue)>>
        /\ c_out[2].state = InternalState("Read", c_in.a, c_in.p, NoValue)
        /\ buffer_as_ref(c_out[2].buffer) = << >>

\* the command was broken off right before its ENQ
C22_Witness ==
    /\ c_op = "overlapping_commands"
    /\ Len(c_frame) = 19
    /\ c_in.a = 43
    /\ c_out[1][1] = 19
    /\ c_out[1][2].t = "ReadParameter"
    /\ c_out[2].state.kind = "Read"

\* bit i of the byte x
BitOf(x, i) == (x \div (2 ^ i)) % 2

\* the XOR of two bytes, bit by bit
XorOf(x, y) ==
    ((BitOf(x, 0) + BitOf(y, 0)) % 2)
    + 2 * ((BitOf(x, 1) + BitOf(y, 1)) % 2)
    + 4 * ((BitOf(x, 2) + BitOf(y, 2)) % 2)
    + 8 * ((BitOf(x, 3) + BitOf(y, 3)) % 2)
    + 16 * ((BitOf(x, 4) + BitOf(y, 4)) % 2)
    + 32 * ((BitOf(x, 5) + BitOf(y, 5)) % 2)
    + 64 * ((BitOf(x, 6) + BitOf(y, 6)) % 2)
    + 128 * ((BitOf(x, 7) + BitOf(y, 7)) % 2)

\* the XOR of data[1..n], folded from the left as the loop of bcc does
RECURSIVE XorOfAll(_, _)
XorOfAll(data, n) ==
    IF n = 0 THEN 0
    ELSE The({XorOf(c, data[n]) : c \in {XorOfAll(data, n - 1)}})

\* the value the formula of bcc gives for the last input
BccFormula ==
    The({IF c < 32 THEN c + 32 ELSE c : c \in {XorOfAll(c_frame, Len(c_frame))}})

\* C29 as stated: bcc(bytes) is the XOR of all bytes, plus 0x20 when that
\* XOR is below 0x20, and lies in [0x20, 0x7F] for every byte sequence.
C29_BccInPrintableBand ==
    c_op = "bcc" =>
        /\ c_out = BccFormula
        /\ c_out = bcc(c_frame)
        /\ c_out \in 32..127

\* C29, amended: bcc(bytes) is the XOR of all bytes, plus 0x20 when that XOR
\* is below 0x20; computed again over the same bytes it is the same; it is
\* never below 0x20, and it lies in [0x20, 0x7F] whenever no byte of the
\* sequence is above 0x7F.
C29_BccInBandForSevenBitBytes ==
    c_op = "bcc" =>
        /\ c_out = BccFormula
        /\ c_out = bcc(c_frame)
        /\ c_out \in 32..255
        /\ (\A i \in 1..Len(c_frame) : c_frame[i] <= 127) => c_out \in 32..127

\* seven bit bytes whose XOR, 0x1E, is lifted to 0x3E
C29_Witness ==
    /\ c_op = "bcc"
    /\ c_frame = <<1, 31>>
    /\ c_out = 62

\* C30: for every integer n in [-99999, 999999] Value::new(n) succeeds and
\* to_bytes gives one to six bytes, each a sign or a digit, that parse back
\* to n both as a Value and as a plain integer.
C30_ValueRoundTrip ==
    c_op = "value" =>
        /\ c_out.new # None
        /\ c_out.new[1].val = c_out.n
        /\ Len(c_frame) \in 1..6
        /\ \A i \in 1..Len(c_frame) : IsValueChar(c_frame[i])
        /\ c_out.value # None
        /\ c_out.value[1].val = c_out.n
        /\ c_out.int = <<c_out.n>>

\* the lowest value, six bytes with its sign, came back whole
C30_Witness ==
    /\ c_op = "value"
    /\ c_out.n = 0 - 99999
    /\ c_frame = <<45, 57, 57, 57, 57, 57>>
    /\ c_out.value = <<[val |-> 0 - 99999, fmt |-> "Wide"]>>
    /\ c_out.int = <<0 - 99999>>

\* ------------------------------------------------------------------------
\* Properties of the Buffer

\* the bytes as the ingest of write stores them: a byte above 0x7F as NUL
Ingested(bytes) == [i \in 1..Len(bytes) |-> IF bytes[i] > 127 THEN 0 ELSE bytes[i]]

\* the last n elements of a sequence
LastN(sq, n) == SubSeq(sq, Len(sq) - n + 1, Len(sq))

\* C26: a single write of more bytes than the capacity leaves the buffer
\* holding exactly the last capacity bytes of the input, in order (each as its
\* ingest stores it), with the read cursor at 0.
C26_OversizedWriteKeepsTail ==
    (b_op = "write" /\ Len(b_in) > b_pre.cap)
        => /\ b_buf.data = Ingested(LastN(b_in, b_pre.cap))
           /\ b_buf.read_pos = 0
           /\ buffer_as_ref(b_buf) = b_buf.data

\* an oversized write onto a buffer that held unread bytes behind a moved
\* cursor, with a first input byte that differs from the byte kept in its
\* place
C26_Witness ==
    /\ b_op = "write"
    /\ Len(b_in) > b_pre.cap
    /\ b_pre.read_pos > 0
    /\ b_pre.read_pos < Len(b_pre.data)
    /\ b_in[1] # b_in[Len(b_in) - b_pre.cap + 1]

\* the capacity left in the buffer before the last operation
RemainingBefore == b_pre.cap - Len(b_pre.data)

\* the last operation ran Buffer::write with at most capacity bytes that did
\* not fit in the remaining capacity (a push does so on a full buffer)
SpillingWrite ==
    /\ b_op \in {"write", "push"}
    /\ Len(b_in) <= b_pre.cap
    /\ Len(b_in) > RemainingBefore

\* the buffer after dropping n oldest bytes of the buffer before, moving the
\* cursor back by n and appending the new bytes
SpilledBy(n) ==
    [b_pre EXCEPT !.data = SliceFrom(@, n) \o Ingested(b_in),
                  !.read_pos = IF @ > n THEN @ - n ELSE 0]

\* C27 as stated: when a write of n bytes (n at most the capacity) does not
\* fit in the remaining capacity r, exactly the n - r oldest stored bytes are
\* dropped, the cursor is moved back by n - r, saturating at 0, and the n new
\* bytes are appended.
C27_SpillDropsOldest ==
    SpillingWrite => b_buf = SpilledBy(Len(b_in) - RemainingBefore)

\* C27, amended: the above holds when the buffer still holds an unread byte;
\* a buffer whose stored bytes were all consumed is cleared first, and the
\* write leaves exactly the n new bytes with the cursor at 0.
C27_SpillDropsOldestOfUnread ==
    SpillingWrite =>
        IF b_pre.read_pos < Len(b_pre.data)
        THEN b_buf = SpilledBy(Len(b_in) - RemainingBefore)
        ELSE /\ b_buf.data = Ingested(b_in)
             /\ b_buf.read_pos = 0

\* a spilling write that drops more bytes than the cursor had passed, so that
\* the cursor saturates and an unread byte is lost
C27_Witness ==
    /\ SpillingWrite
    /\ b_op = "write"
    /\ b_pre.read_pos > 0
    /\ b_pre.read_pos < Len(b_pre.data)
    /\ Len(b_in) - RemainingBefore > b_pre.read_pos

\* C28: every byte above 0x7F that is ingested, by push or by write, is stored
\* as NUL, and the visible bytes never contain a value above 0x7F.
C28_NoByteAboveSevenBits ==
    /\ \A i \in 1..Len(buffer_as_ref(b_buf)) : buffer_as_ref(b_buf)[i] <= 127
    /\ (b_op \in {"write", "push"} /\ Len(b_in) <= b_pre.cap)
          => LastN(b_buf.data, Len(b_in)) = Ingested(b_in)

\* ------------------------------------------------------------------------
\* Properties of the Scanner

NodeTimeout == SomeCtrl("NodeTimeout", 0, 0, NoValue)

\* the last call gave controller bytes to a scanner that expected a response
CtrlBytesWhileExpectingResponse ==
    /\ s_op = "recv_from_ctrl"
    /\ s_pre.scanner.expect.kind \in {"ReadResponse", "WriteResponse"}

\* the last call gave the scanner the bytes again that had just made it emit
\* NodeTimeout
SameBytesAfterTimeout ==
    /\ s_op = "recv_from_ctrl"
    /\ s_pre.op = "recv_from_ctrl"
    /\ s_pre.out = <<0, NodeTimeout>>
    /\ s_in = s_pre.in

\* C24: controller bytes given to a scanner that still expects a read or
\* write response make it emit NodeTimeout, consume nothing and return to
\* ExpectCommand; the same bytes given again are parsed as the new command.
C24_NodeTimeoutThenCommand ==
    /\ CtrlBytesWhileExpectingResponse
          => /\ s_out = <<0, NodeTimeout>>
             /\ scanner.expect = ExpectCommand
    /\ SameBytesAfterTimeout
          => /\ \A q \in ScanParams :
                   s_in = read_parameter_data(ScanAddr, q)
                      => /\ s_out = <<Len(s_in), SomeCtrl("Read", ScanAddr, q, NoValue)>>
                         /\ scanner.expect = Expect("ReadResponse", ScanAddr, q)
             /\ s_in = write_parameter_data(ScanAddr, 1234, V56)
                   => /\ s_out = <<Len(s_in), SomeCtrl("Write", ScanAddr, 1234, V56)>>
                      /\ scanner.expect = Expect("WriteResponse", 0, 0)
             /\ s_out[2] # NodeTimeout

\* a write command arrives while the response to a read is expected, and is
\* given again after the NodeTimeout
C24_Witness ==
    /\ SameBytesAfterTimeout
    /\ s_pre.scanner.expect.kind = "Command"
    /\ s_pre.before[2] = SomeCtrl("Read", ScanAddr, 1234, NoValue)
    /\ s_out[2] = SomeCtrl("Write", ScanAddr, 1234, V56)

\* the last call gave the scanner a short form right after it had observed
\* Read(a, q) and then the node's response to it
ShortFormAfterRead(a, q) ==
    /\ s_op = "recv_from_ctrl"
    /\ s_in \in ShortForms
    /\ s_pre.op = "recv_from_node"
    /\ s_pre.out[2] # None
    /\ s_pre.out[2][1].e = "Read"
    /\ s_pre.before[2] = SomeCtrl("Read", a, q, NoValue)

\* the parameter the short form byte b stands for after a read of q
ShortFormParam(b, q) == IF b = ACK THEN q + 1 ELSE IF b = NAK THEN q ELSE q - 1

\* the scanner, expecting a command, was given a short form and had observed
\* no read in any call before
ShortFormWithoutRead ==
    /\ s_op = "recv_from_ctrl"
    /\ s_in \in ShortForms
    /\ s_pre.scanner.expect.kind = "Command"
    /\ s_calls <= 3
    /\ \A o \in {s_pre.out, s_pre.before} :
          o = << >> \/ o[2] = None \/ o[2][1].e # "Read" \/ o[2][1].ch # "Ctrl"

\* C25: after Read(A, P) and the node's response to it, ACK yields
\* Read(A, P+1), NAK yields Read(A, P) and BS yields Read(A, P-1), and the
\* scanner expects the read response for that parameter; a parameter out of
\* range yields no event, and so does a short form with no read before it.
C25_ShortFormEvents ==
    /\ \A q \in ScanParams :
          ShortFormAfterRead(ScanAddr, q)
             => IF ShortFormParam(s_in[1], q) \in 0..9999
                THEN /\ s_out = <<1, SomeCtrl("Read", ScanAddr,
                                              ShortFormParam(s_in[1], q), NoValue)>>
                     /\ scanner.expect = Expect("ReadResponse", ScanAddr,
                                                ShortFormParam(s_in[1], q))
                ELSE s_out = <<1, None>>
    /\ ShortFormWithoutRead => s_out = <<1, None>>

\* ACK after a read of 1234 and its reply: the scanner reports Read(1235)
C25_Witness ==
    /\ ShortFormAfterRead(ScanAddr, 1234)
    /\ s_in = <<ACK>>
    /\ s_pre.out[2][1].r.r = "Ok"
    /\ s_out[2] = SomeCtrl("Read", ScanAddr, 1235, NoValue)

\* the controller events among the events the scanner thread collected
CtrlEvents == SelectSeq(s_events, LAMBDA e : e.ch = "Ctrl")

\* the event that stands for a command the controller was asked for
EventOf(c) ==
    [ch |-> "Ctrl", e |-> IF c.kind = "read" THEN "Read" ELSE "Write",
     a |-> c.a, p |-> c.p, v |-> c.v]

IssuedEvents == [i \in 1..Len(issued) |-> EventOf(issued[i])]

\* every command asked for is on the wire and the scanner thread has read
\* all of it
ScannerReadAllCommands ==
    /\ \A e \in handles : e.h.phase # "SendData"
    /\ sq_c = << >>

\* C23: the controller events the scanner emits are the commands the
\* controller issued, the same events in the same order, each once, and no
\* NodeTimeout: at any time they are the first of the issued commands, and
\* all of them once the scanner has read every command.
C23_ScannerSeesIssuedCommands ==
    /\ Len(CtrlEvents) <= Len(IssuedEvents)
    /\ CtrlEvents = SubSeq(IssuedEvents, 1, Len(CtrlEvents))
    /\ ScannerReadAllCommands => CtrlEvents = IssuedEvents

\* two reads, the second sent as a short form, both replies read by the
\* scanner thread, which reports both reads
C23_Witness ==
    /\ tap
    /\ Len(issued) = 2
    /\ issued[1].kind = "read"
    /\ issued[2].short
    /\ issued[2].p = issued[1].p + 1
    /\ handles = {}
    /\ sq_c = << >>
    /\ sq_n = << >>
    /\ s_phase = "ctrl"
    /\ Len(s_events) = 4
    /\ CtrlEvents = IssuedEvents

\* ------------------------------------------------------------------------
\* Frame lengths

\* the last conversion made the frame of a command: the bytes the controller
\* emits
ControllerEmitted == c_op = "write_command"

\* the last conversion made the frame of a reply: the bytes the controller
\* receives
ControllerReceived == c_op = "read_response"

\* C31 as stated: every frame the controller emits is at most 17 bytes long
\* and every frame it receives from a node is at most 16 bytes long.
C31_FramesWithin17And16 ==
    /\ ControllerEmitted => Len(c_frame) <= 17
    /\ Len(read_parameter_data(c_in.a, c_in.p)) <= 17
    /\ ControllerReceived => Len(c_frame) <= 16

\* C31, amended: every frame the controller emits is at most 18 bytes long
\* (a write of a six character value is 18 bytes), and every frame it
\* receives from a node is at most 16 bytes long.
C31_FramesWithin18And16 ==
    /\ ControllerEmitted => Len(c_frame) <= 18
    /\ Len(read_parameter_data(c_in.a, c_in.p)) <= 18
    /\ ControllerReceived => Len(c_frame) <= 16

\* a write command that carries a six character value
C31_Witness ==
    /\ ControllerEmitted
    /\ Len(ValueToBytes(c_in.v)) = 6
    /\ Len(c_frame) = 18

\* ------------------------------------------------------------------------
\* The read-again contexts of the controller and the node

\* the live requests whose frame is a short form
ShortFormRequests == {e \in handles : e.h.kind = "read" /\ Len(e.h.data) = 1}

\* the short form of request e has not reached the node yet
ShortFormUnderWay(e) == e.h.phase = "SendData" \/ bus_cn # << >>

\* the parameter the short form byte b stands for when the parameter read
\* last was q
ResolvedParam(b, q) == IF b = ACK THEN q + 1 ELSE IF b = NAK THEN q ELSE q - 1

\* C32: whenever the controller emits a short form byte for a read of
\* (A, P'), the node holds a live read-again context from which that byte
\* resolves to a read of (A, P'), and what the node then answers is the read
\* of (A, P'): the two never disagree on the parameter of a short form read.
C32_ShortFormAgreement ==
    \A e \in ShortFormRequests :
        /\ ShortFormUnderWay(e)
              => /\ node.read_again_param # None
                 /\ node.read_again_param[1] = e.h.address
                 /\ ResolvedParam(e.h.data[1], node.read_again_param[2])
                       = e.h.expected_param
        /\ node.state.kind \notin {"Recv", "Send"}
              => /\ node.state.kind = "Read"
                 /\ node.state.address = e.h.address
                 /\ node.state.parameter = e.h.expected_param

\* the node, given the BS of a read of the previous parameter, waits for the
\* value of that parameter
C32_Witness ==
    \E e \in ShortFormRequests :
        /\ e.h.data = <<BS>>
        /\ node.state.kind = "Read"
        /\ node.state.parameter = e.h.expected_param
        /\ node.address = BusAddr

\* ------------------------------------------------------------------------
\* Properties of several nodes on one bus

\* all nodes have read the same bytes of the stream
SamePrefixProcessed == \A a, b \in MultiAddrs : mn_pos[a] = mn_pos[b]

\* the nodes that hold a read-again context
NodesWithContext == {a \in MultiAddrs : mn_nodes[a].read_again_param # None}

\* the nodes that have a read to answer
NodesReading == {a \in MultiAddrs : mn_nodes[a].state.kind = "Read"}

\* C33: when nodes with distinct non-zero addresses receive the same byte
\* stream, at most one of them has a live read-again context after any prefix
\* that all have processed, and at most one of them has a read to answer.
C33_OneReadAgainContext ==
    SamePrefixProcessed
        => /\ Cardinality(NodesWithContext) <= 1
           /\ Cardinality(NodesReading) <= 1

\* a read of node 43 that it answered, then an ACK: after both nodes have read
\* all of it, node 43 alone has a read to answer, that of the next parameter
C33_Witness ==
    /\ SamePrefixProcessed
    /\ mn_stream = read_parameter_data(43, 1234) \o <<ACK>>
    /\ mn_pos[43] = Len(mn_stream)
    /\ NodesReading = {43}
    /\ mn_nodes[43].state.parameter = 1235
    /\ mn_nodes[10].state.kind = "Recv"

\* ------------------------------------------------------------------------
\* The node acts on the last token

\* the last call gave the node, its buffer empty, the command x[1] for it
\* followed by the bytes x[2]
GivenFollowed(x) ==
    /\ n_op = "receive_data"
    /\ n_in = x[1] \o x[2]
    /\ buffer_len(n_pre.node.buffer) = 0
    /\ for_us(n_pre.node, 43)

\* C34: when the buffer holds a complete valid command for the node followed
\* by further bytes, the command is consumed and discarded: the node does not
\* enter the state of that command and sends no reply to it; it is where the
\* further bytes alone take a node without read-again context.
C34_ActsOnLastToken ==
    \A x \in Followed :
        GivenFollowed(x)
           => /\ node.state # receive_data(node_new(node.address), x[1]).state
              /\ node.state = receive_data(node_new(node.address), x[2]).state
              /\ buffer_as_ref(node.buffer)
                    = buffer_as_ref(receive_data(node_new(node.address), x[2]).buffer)
              /\ node.read_again_param = None
              /\ x[2] = SliceTo(read_parameter_data(43, 1234), 5)
                    => /\ state(node) = "ReceiveData"
                       /\ buffer_as_ref(node.buffer) = x[2]
              /\ x[2] = <<48>> => state(node) = "ReceiveData"
              /\ x[2] = read_parameter_data(43, 9)
                    => node.state = InternalState("Read", 43, 9, NoValue)
              /\ x[2] = write_parameter_data(43, 0, VWide)
                    => node.state = InternalState("Write", 43, 0, VWide)

\* a node that had answered a read is given a write for it followed by the
\* start of a read: it keeps receiving and has the start of the read left
C34_Witness ==
    /\ GivenFollowed(<<write_parameter_data(43, 1234, V56),
                       SliceTo(read_parameter_data(43, 1234), 5)>>)
    /\ n_pre.node.read_again_param # None
    /\ state(node) = "ReceiveData"
    /\ buffer_len(node.buffer) = 5

\* ------------------------------------------------------------------------
\* The parse loop of the node

\* the iterations of the parse loop in the last receive_data call
LastLoop == parse_loop_steps(buffer_write(n_pre.node.buffer, n_in))

\* C36: the parse loop of receive_data terminates: each iteration returns or
\* consumes at least one byte, the consumed count never exceeds the number of
\* unread bytes (the assertion of Buffer::consume holds), so there are no more
\* iterations than unread bytes.
C36_ParseLoopTerminates ==
    n_op = "receive_data"
        => /\ \A i \in 1..Len(LastLoop) :
                 /\ LastLoop[i].consumed <= LastLoop[i].unread
                 /\ LastLoop[i].consumed = 0 => LastLoop[i].leaves
                 /\ LastLoop[i].leaves <=> i = Len(LastLoop)
                 /\ i > 1 => LastLoop[i].unread < LastLoop[i - 1].unread
           /\ Len(LastLoop) <= LastLoop[1].unread + 1
           /\ buffer_len(node.buffer) <= LastLoop[Len(LastLoop)].unread

\* a call with bytes left in the buffer by the call before, whose loop
\* consumed a token and returned in its second iteration for want of data
C36_Witness ==
    /\ n_op = "receive_data"
    /\ buffer_len(n_pre.node.buffer) > 0
    /\ Len(LastLoop) = 2
    /\ LastLoop[1].consumed > 0
    /\ LastLoop[2].consumed = 0
    /\ LastLoop[2].unread > 0

\* C37: after any sequence of push, write, clear, get_ref_and_clear and
\* consume(n) with n at most the unread length, read cursor <= stored length
\* <= capacity, the visible slice has exactly len() bytes, and the unread bytes
\* present before a write are all kept whenever unread length plus written
\* length does not exceed the capacity.
C37_BufferShape ==
    /\ 0 <= b_buf.read_pos
    /\ b_buf.read_pos <= Len(b_buf.data)
    /\ Len(b_buf.data) <= b_buf.cap
    /\ Len(buffer_as_ref(b_buf)) = buffer_len(b_buf)
    /\ buffer_as_ref(b_buf) = SubSeq(b_buf.data, b_buf.read_pos + 1, Len(b_buf.data))
    /\ (b_op \in {"write", "push"} /\ buffer_len(b_pre) + Len(b_in) <= b_pre.cap)
          => /\ buffer_len(b_buf) = buffer_len(b_pre) + Len(b_in)
             /\ SubSeq(buffer_as_ref(b_buf), 1, buffer_len(b_pre)) = buffer_as_ref(b_pre)

\* a write onto a full buffer with one unread byte: two consumed bytes are
\* dropped, the unread byte is kept in front of the two new ones
C37_Witness ==
    /\ b_op = "write"
    /\ Len(b_pre.data) = b_pre.cap
    /\ buffer_len(b_pre) = 1
    /\ Len(b_in) = 2
    /\ b_buf.read_pos = 0
    /\ buffer_as_ref(b_buf) = buffer_as_ref(b_pre) \o Ingested(b_in)


\* ------------------------------------------------------------------------
\* A read the node refuses with send_read_failed.

C39_WriteReceiverEndsAtOnce ==
    ReceivedIn("write") =>
        /\ handles = {}
        /\ \A e \in m_pre.handles :
              e.h.phase = "Receiver" /\ buffer_len(e.h.buffer) = 0
        /\ m_last.outcome \in {"Ok", "CommandFailed", "ProtocolError"}
        /\ m_rx = << >> => m_last.outcome = "ProtocolError"

\* the first receive_data of a write exchange was given an empty slice
C39_Witness ==
    /\ ReceivedIn("write")
    /\ m_pre.handles # {}
    /\ m_rx = << >>
    /\ handles = {}
    /\ m_last.outcome = "ProtocolError"


\* ------------------------------------------------------------------------
\* Commands and what closes them, in the events of a Scanner

\* the event a call returned, None when it returned none (or was not made)
EventIn(o) == IF o = << >> THEN None ELSE o[2]

\* ControllerEvent::Read or ControllerEvent::Write
IsCommandEvent(ev) ==
    /\ ev # None
    /\ ev[1].ch = "Ctrl"
    /\ ev[1].e \in {"Read", "Write"}

\* NodeEvent::Read or NodeEvent::Write
IsResponseEvent(ev) ==
    /\ ev # None
    /\ ev[1].ch = "Node"
    /\ ev[1].e \in {"Read", "Write"}

\* the event closes the exchange the command event opened: the node's
\* response of the same kind, or NodeTimeout
Closes(ev, cmd) ==
    \/ ev = NodeTimeout
    \/ IsResponseEvent(ev) /\ ev[1].e = cmd[1].e

\* the scanner awaits the response to a command of this kind
Awaits(sc, kind) ==
    sc.expect.kind = (IF kind = "Read" THEN "ReadResponse" ELSE "WriteResponse")

\* C35: each Read or Write controller event is followed by exactly one node
\* response event of the matching kind or exactly one NodeTimeout before the
\* next Read or Write controller event; NodeEvent::Read is emitted only while
\* a read response is expected and NodeEvent::Write only while a write
\* response is expected.  Per call: a command event is emitted only by a
\* scanner that expects a command, and leaves it expecting the response; a
\* scanner that expects a response leaves that state only with one closing
\* event, and emits nothing while it stays; a scanner that expects a command
\* emits no closing event.  Over the calls of a run: two command events are
\* never adjacent, and the event between two command events closes the first.
C35_OneCloseBetweenCommands ==
    s_calls > 0 =>
        /\ IsCommandEvent(EventIn(s_out))
              => /\ s_pre.scanner.expect = ExpectCommand
                 /\ Awaits(scanner, EventIn(s_out)[1].e)
        /\ s_pre.scanner.expect # ExpectCommand
              => IF scanner.expect = ExpectCommand
                 THEN \/ s_op = "recv_from_ctrl" /\ EventIn(s_out) = NodeTimeout
                      \/ /\ s_op = "recv_from_node"
                         /\ IsResponseEvent(EventIn(s_out))
                         /\ Awaits(s_pre.scanner, EventIn(s_out)[1].e)
                 ELSE /\ EventIn(s_out) = None
                      /\ scanner.expect = s_pre.scanner.expect
        /\ s_pre.scanner.expect = ExpectCommand
              => /\ EventIn(s_out) # NodeTimeout
                 /\ ~IsResponseEvent(EventIn(s_out))
                 /\ scanner.expect # ExpectCommand => IsCommandEvent(EventIn(s_out))
        /\ IsResponseEvent(EventIn(s_out))
              => Awaits(s_pre.scanner, EventIn(s_out)[1].e)
        /\ IsCommandEvent(EventIn(s_out))
              => /\ ~IsCommandEvent(EventIn(s_pre.out))
                 /\ IsCommandEvent(EventIn(s_pre.before))
                       => Closes(EventIn(s_pre.out), EventIn(s_pre.before))

\* a write, the node's answer to it, and then a read
C35_Witness ==
    /\ s_calls = 3
    /\ EventIn(s_pre.before) = SomeCtrl("Write", ScanAddr, 1234, V56)
    /\ IsResponseEvent(EventIn(s_pre.out))
    /\ EventIn(s_pre.out)[1].e = "Write"
    /\ EventIn(s_out) = SomeCtrl("Read", ScanAddr, 9999, NoValue)
    /\ scanner.expect = Expect("ReadResponse", ScanAddr, 9999)


\* ------------------------------------------------------------------------
\* A value taken off the wire and encoded again

\* C40: every Value decoded from a valid on-wire value field (1 to 6
\* characters of sign and digits, an unsigned six-digit field such as 999999
\* included) can be re-encoded by to_bytes without panicking, into 1 to 6 bytes
\* that decode to the same integer.
C40_DecodedValueReencodes ==
    (c_op = "reencode" /\ c_out.value # None) =>
        /\ c_out.bytes # Panic
        /\ Len(c_out.bytes) \in 1..6
        /\ c_out.again # None
        /\ c_out.again[1].val = c_out.value[1].val

====
